---------------------------- MODULE Spec2Model ----------------------------
(***************************************************************************)
(* A model of the onenote2xml reader: the binary-search routines, the      *)
(* per-object-space version lookup, the per-revision object-tree builder,  *)
(* the revision-manifest decoder, the cross-space revision history and its *)
(* grouping by guid, the byte reader, the JSON tree builder, the timestamp *)
(* of a revision, the files a run opens, the version picked for a          *)
(* timestamp and the sections of versions.txt.                             *)
(*                                                                         *)
(* Each component has its own group of variables and its own               *)
(* specification; the variables of the other components stay idle.         *)
(***************************************************************************)
EXTENDS Integers, Sequences, FiniteSets, TLC

VARIABLES
    \* binary_search.py: one call of Find / LowerBound / UpperBound
    bs_fn,          \* "Find" | "LowerBound" | "UpperBound" | "idle"
    array,          \* the sorted input array
    target,         \* the searched value
    bottom,         \* local 'bottom'
    top,            \* local 'top'
    bound_item,     \* local 'top_item' (LowerBound) / 'bottom_item' (UpperBound)
    bs_pc,          \* "loop" | "done" | "idle"
    bs_ret,         \* the returned (item, pos) once bs_pc = "done"
    bs_mid,         \* the 'mid' computed by the last iteration (-2: none yet)
    bs_assert_ok,   \* every in-loop assert passed so far
    \* ObjectSpaceBuilderCtx: the version list of one object space and a lookup
    os_versions,    \* self.versions, as built by __init__
    os_query,       \* the arguments of the last GetVersionByTimestamp call
    os_result,      \* what that call returned
    \* ObjectTreeBuilder: the cross-space history built by GetVersions
    object_spaces,  \* self.object_spaces without the root one: one record per space
    page_index,     \* the ChildGraphSpaceElementNodes of the root index, in order
    combine_revisions_time_span,    \* in FILETIME units
    versions,       \* self.versions when it is a list
    versions_is_none,   \* self.versions is None
    gv_returned,    \* what the calls of GetVersions have returned so far, and
                    \* whether the call went through the loop
    prev_version_tree_list,         \* local of GetVersions
    timestamps,     \* the sorted timestamps GetVersions has not processed yet
    gv_pc,          \* "start" | "loop" | "done" | "idle"
    gv_last,        \* the last candidate and the state it was applied to
    \* RevisionBuilderCtx: the object tree of one revision
    revision_objects,   \* what revision.GetObjectById has answered so far, per oid
    revision_roots,     \* the root object ids of the roles built so far
    obj_dict,           \* self.obj_dict: per oid "none" | "NotImplemented" | "built"
    call_stack,         \* the objects under construction: [oid, next reference]
    obj_pc,             \* "running" | "done" | the exception raised | "idle"
    make_count,         \* per oid, the number of MakeObject calls
    stored_count,       \* per oid, the requests answered from obj_dict
    \* RevisionManifestList / RevisionManifest: one revision-manifest list
    node_alphabet,      \* the file nodes the list's stream can hold
    revisions,          \* local 'revisions' of the generator: rid -> revision
    revision,           \* the RevisionManifest under construction
    node,               \* local 'node': the file node last read
    obj_group,          \* local 'obj_group' of __init__ (NoVal: unbound)
    prev_global_id_table,   \* local of __init__
    rml_pc,             \* "start" | "list" | "loop1" | "loop2" | "done" |
                        \* the exception raised | "idle"
    rev_count,          \* the RevisionManifestStart nodes met so far
    rml_spin,           \* the last loop iteration ended without reading a node
    rml_start,          \* the last RevisionManifestStart node, the
                        \* 'revisions' it was decoded against and the root
                        \* references its revision has stored since
    root_dicts,         \* the dicts made for self.root_objects
    \* onestore_reader: the readers made over one file image
    rd_data,            \* the file image: self.data of every reader
    readers,            \* the readers in use: slice_offset, offset, length
    rd_last,            \* the call the run is followed up to: its arguments,
                        \* the readers before it, what it returned or raised
    \* JsonTreeBuilder: one call of BuildJsonTree
    js_object_spaces,   \* self.object_spaces: per gosid the revisions of the
                        \* space, in dictionary order, and its root revision
    js_root_gosid,      \* self.root_gosid
    js_options,         \* the options of the call
    js_pc,              \* "call" | "pages" | "done" | the exception raised |
                        \* "idle"
    js_todo,            \* the object spaces the loop has still to visit
    js_tree,            \* the tree built so far
    \* 1note2json.py main and MakeVersionFiles: the files of one run
    fh_options,         \* --log, --output-directory, --all-revisions
    fh_pc,              \* where the run is; "exit" and "exit_error" end it
    fh_open,            \* the file handles open
    fh_left,            \* the versions MakeVersionFiles has still to write
    fh_pages,           \* the items _WriteVersionFiles has still to write
    \* RevisionBuilderCtx.__init__: the timestamp of one revision
    ts_root_objects,    \* the root object of each role
    ts_roles,           \* self.revision.GetRootObjectRoles(), in order
    ts_done,            \* the roles the loop has been through
    ts_ctx,             \* self.last_modified_timestamp, self.conflict_author
    ts_pc,              \* "roles" | "done" | "idle"
    \* GetVersions: the grouping by guid of the revisions of one timestamp
    gb_list,            \* revision_ctx_list, what is left of it once sorted
    gb_entered,         \* the revisions the loop has been through
    gb_version_tree,    \* local 'version_tree'
    gb_before,          \* version_tree before the last iteration
    gb_pc,              \* "sort" | "loop" | "done" | "idle"
    \* ObjectTreeBuilder: what is made of the versions (a tree, files, versions.txt)
    mv_versions,        \* self.versions, as GetVersions left it
    mv_titles,          \* the page title that goes with each page hash
    mv_timestamp,       \* the timestamp asked for (NoVal: none)
    mv_version,         \* what GetVersionByTimestamp returned
    mv_output,          \* the pages of the returned tree / the files written
    mv_left,            \* the versions 'for version in self.GetVersions()' has yet to see
    mv_prev_directory,  \* local 'prev_directory'
    mv_title,           \* local 'title' (NoVal: not bound yet)
    mv_written,         \* the sections written to versions.txt
    mv_pc               \* "start" | "loop" | "done" | "failed" | "idle"

bsVars == <<bs_fn, array, target, bottom, top, bound_item, bs_pc, bs_ret,
            bs_mid, bs_assert_ok>>
osVars == <<os_versions, os_query, os_result>>

gvVars == <<object_spaces, page_index, combine_revisions_time_span, versions,
            prev_version_tree_list, timestamps, gv_pc, gv_last,
            versions_is_none, gv_returned>>

objVars == <<revision_objects, revision_roots, obj_dict, call_stack, obj_pc,
             make_count, stored_count>>

rmlVars == <<node_alphabet, revisions, revision, node, obj_group,
             prev_global_id_table, rml_pc, rev_count, rml_spin, rml_start,
             root_dicts>>

rdVars == <<rd_data, readers, rd_last>>
jsVars == <<js_object_spaces, js_root_gosid, js_options, js_pc, js_todo,
           js_tree>>
fhVars == <<fh_options, fh_pc, fh_open, fh_left, fh_pages>>
tsVars == <<ts_root_objects, ts_roles, ts_done, ts_ctx, ts_pc>>
gbVars == <<gb_list, gb_entered, gb_version_tree, gb_before, gb_pc>>
mvVars == <<mv_versions, mv_titles, mv_timestamp, mv_version, mv_output,
            mv_left, mv_prev_directory, mv_title, mv_written, mv_pc>>

vars == <<bsVars, osVars, gvVars, objVars, rmlVars, rdVars, jsVars, fhVars, tsVars, gbVars, mvVars>>

-----------------------------------------------------------------------------
(* Python values *)

\* Python's None for a value that is otherwise a string
None == "None"
\* An optional value: <<>> is None, <<x>> is x
NoVal == <<>>
Some(x) == <<x>>

Last(s) == s[Len(s)]

-----------------------------------------------------------------------------
(* Bounds *)

MaxLen == 3         \* longest array searched
MaxVal == 3         \* array values are 1..MaxVal, targets 0..MaxVal+1
MaxVersions == 3    \* most revisions of one object space
MaxTick == 3        \* timestamps are 1..MaxTick half-minutes
MaxOid == 3         \* the object ids of a revision are 1..MaxOid
MaxRoles == 2       \* most root roles of a revision
MaxRid == 2         \* the revision ids of a list are 1..MaxRid
MaxRevisions == 2   \* most RevisionManifestStart nodes of a list
MaxData == 4        \* longest file image, in bytes
MaxSpaces == 2      \* most object spaces of a file, the root one included
MaxPages == 2       \* most items of a version directory
MaxCalls == 2        \* most calls of GetVersions on one builder
MaxChosen == 3      \* most revisions chosen for one timestamp

-----------------------------------------------------------------------------
(* binary_search.py *)

SortedArrays ==
    { a \in UNION { [1..n -> 1..MaxVal] : n \in 0..MaxLen } :
        \A i \in 1..(Len(a) - 1) : a[i] <= a[i + 1] }

Targets == 0..(MaxVal + 1)

\* array[i] with Python's 0-based index
At(a, i) == a[i + 1]

BSReturn(item, pos) ==
    /\ bs_pc' = "done"
    /\ bs_ret' = [item |-> item, pos |-> pos]

\* The locals of Find / LowerBound / UpperBound before the first iteration
BSEnter(fn, a, t) ==
    /\ bs_fn = fn
    /\ array = a
    /\ target = t
    /\ bottom = (IF fn = "UpperBound" THEN -1 ELSE 0)
    /\ top = (IF fn = "UpperBound" THEN Len(a) - 1 ELSE Len(a))
    /\ bound_item = NoVal
    /\ bs_pc = "loop"
    /\ bs_ret = [item |-> NoVal, pos |-> NoVal]
    /\ bs_mid = -2
    /\ bs_assert_ok = TRUE

\* A call Find(array, target), LowerBound(...) or UpperBound(...) on a sorted array
BSCall ==
    \E fn \in {"Find", "LowerBound", "UpperBound"}, a \in SortedArrays, t \in Targets :
        BSEnter(fn, a, t)

\* Any array, sorted or not
AnyArrays == UNION { [1..n -> 1..MaxVal] : n \in 0..MaxLen }

\* A call on an array that need not be sorted
BSCallAny ==
    \E fn \in {"Find", "LowerBound", "UpperBound"}, a \in AnyArrays, t \in Targets :
        BSEnter(fn, a, t)

\* A Find that gives up as soon as an item is below the target
ReachedEndPointAlways(b, m) == TRUE

\* A Find that never sees its end point
ReachedEndPointNever(b, m) == FALSE

\* 'elif bottom == mid: break' in Find
ReachedEndPoint(b, m) == b = m

\* One evaluation of Find's 'while top != bottom' and of its body
FindStep ==
    /\ bs_fn = "Find" /\ bs_pc = "loop"
    /\ UNCHANGED <<bs_fn, array, target, bound_item>>
    /\ IF top = bottom
       THEN /\ BSReturn(NoVal, NoVal)
            /\ UNCHANGED <<bottom, top, bs_mid, bs_assert_ok>>
       ELSE LET mid == (top + bottom) \div 2
                item == At(array, mid)
            IN  /\ bs_mid' = mid
                /\ bs_assert_ok' = (bs_assert_ok /\ mid < top)
                /\ IF item = target
                   THEN BSReturn(Some(item), Some(mid)) /\ UNCHANGED <<bottom, top>>
                   ELSE IF item > target
                   THEN top' = mid /\ UNCHANGED <<bottom, bs_pc, bs_ret>>
                   ELSE IF ReachedEndPoint(bottom, mid)
                   THEN BSReturn(NoVal, NoVal) /\ UNCHANGED <<bottom, top>>
                   ELSE bottom' = mid /\ UNCHANGED <<top, bs_pc, bs_ret>>

\* One evaluation of LowerBound's 'while top != bottom' and of its body
LowerBoundStep ==
    /\ bs_fn = "LowerBound" /\ bs_pc = "loop"
    /\ UNCHANGED <<bs_fn, array, target>>
    /\ IF top = bottom
       THEN /\ BSReturn(bound_item, Some(top))
            /\ UNCHANGED <<bottom, top, bound_item, bs_mid, bs_assert_ok>>
       ELSE LET mid == (top + bottom) \div 2
                item == At(array, mid)
            IN  /\ bs_mid' = mid
                /\ bs_assert_ok' = (bs_assert_ok /\ mid < top)
                /\ IF item = target
                   THEN /\ BSReturn(Some(item), Some(mid))
                        /\ UNCHANGED <<bottom, top, bound_item>>
                   ELSE IF item > target
                   THEN /\ top' = mid
                        /\ bound_item' = Some(item)
                        /\ UNCHANGED <<bottom, bs_pc, bs_ret>>
                   ELSE IF mid # bottom
                   THEN /\ bottom' = mid
                        /\ UNCHANGED <<top, bound_item, bs_pc, bs_ret>>
                   ELSE /\ BSReturn(bound_item, Some(top))
                        /\ UNCHANGED <<bottom, top, bound_item>>

\* One evaluation of UpperBound's 'while top != bottom' and of its body
UpperBoundStep ==
    /\ bs_fn = "UpperBound" /\ bs_pc = "loop"
    /\ UNCHANGED <<bs_fn, array, target>>
    /\ IF top = bottom
       THEN /\ BSReturn(bound_item, Some(bottom))
            /\ UNCHANGED <<bottom, top, bound_item, bs_mid, bs_assert_ok>>
       ELSE LET mid == (top + bottom + 1) \div 2
                item == At(array, mid)
            IN  /\ bs_mid' = mid
                /\ bs_assert_ok' = (bs_assert_ok /\ mid > bottom)
                /\ IF item = target
                   THEN /\ BSReturn(Some(item), Some(mid))
                        /\ UNCHANGED <<bottom, top, bound_item>>
                   ELSE IF item < target
                   THEN /\ bottom' = mid
                        /\ bound_item' = Some(item)
                        /\ UNCHANGED <<top, bs_pc, bs_ret>>
                   ELSE IF mid # top
                   THEN /\ top' = mid
                        /\ UNCHANGED <<bottom, bound_item, bs_pc, bs_ret>>
                   ELSE /\ BSReturn(bound_item, Some(bottom))
                        /\ UNCHANGED <<bottom, top, bound_item>>

BSIdle ==
    /\ bs_fn = "idle"
    /\ array = <<>>
    /\ target = 0
    /\ bottom = 0
    /\ top = 0
    /\ bound_item = NoVal
    /\ bs_pc = "idle"
    /\ bs_ret = [item |-> NoVal, pos |-> NoVal]
    /\ bs_mid = -2
    /\ bs_assert_ok = TRUE

-----------------------------------------------------------------------------
(* ObjectSpaceBuilderCtx: the version list and GetVersionByTimestamp *)

\* FILETIME units (100 ns) in one minute: combine_revisions *= 60 * 1000 * 10000
FiletimePerMinute == 60 * 1000 * 10000
\* The timestamps of the model lie half a minute apart
Tick == FiletimePerMinute \div 2
Timestamps == { k * Tick : k \in 1..MaxTick }
\* Timestamps a caller may ask for: those of the model and one on either side
QueryTimestamps == { k * Tick : k \in 0..(MaxTick + 1) }

\* Python's sorted(seq, key=lambda x: keys[index of x]), which is stable: an
\* item stands after the items with a smaller key and after the earlier items
\* with an equal key
SortedBy(seq, keys) ==
    LET place(i) == Cardinality({ j \in 1..Len(seq) : keys[j] < keys[i] })
                    + Cardinality({ j \in 1..(i - 1) : keys[j] = keys[i] }) + 1
    IN  [p \in 1..Len(seq) |-> seq[CHOOSE i \in 1..Len(seq) : place(i) = p]]

\* sorted(versions, key=lambda ver: ver.last_modified_timestamp)
SortedByTimestamp(vers) ==
    SortedBy(vers, [i \in 1..Len(vers) |-> vers[i].last_modified_timestamp])

\* The loop at the end of ObjectSpaceBuilderCtx.__init__: the versions in
\* ascending timestamp order, the encrypted ones left out
RECURSIVE SkipEncrypted(_)
SkipEncrypted(s) ==
    IF s = <<>> THEN <<>>
    ELSE IF s[1].is_encrypted THEN SkipEncrypted(Tail(s))
         ELSE <<s[1]>> \o SkipEncrypted(Tail(s))

BuildVersions(vers) == SkipEncrypted(SortedByTimestamp(vers))

\* An upper-bound scan that walks the list forwards
RECURSIVE ScanUpperBoundForwards(_, _)
ScanUpperBoundForwards(vers, timestamp) ==
    IF vers = <<>> THEN NoVal
    ELSE IF vers[1].last_modified_timestamp <= timestamp
         THEN Some(vers[1])
         ELSE ScanUpperBoundForwards(Tail(vers), timestamp)

\* 'for rev in reversed(self.versions): if rev.ts <= timestamp: return rev'
RECURSIVE ScanUpperBound(_, _)
ScanUpperBound(vers, timestamp) ==
    IF vers = <<>> THEN NoVal
    ELSE IF Last(vers).last_modified_timestamp <= timestamp
         THEN Some(Last(vers))
         ELSE ScanUpperBound(SubSeq(vers, 1, Len(vers) - 1), timestamp)

\* 'for rev in self.versions: if rev.ts >= timestamp: return rev'
RECURSIVE ScanLowerBound(_, _)
ScanLowerBound(vers, timestamp) ==
    IF vers = <<>> THEN NoVal
    ELSE IF vers[1].last_modified_timestamp >= timestamp
         THEN Some(vers[1])
         ELSE ScanLowerBound(Tail(vers), timestamp)

\* 'for rev in self.versions: if rev.ts > timestamp: break; if rev.ts == timestamp: return rev'
RECURSIVE ScanExact(_, _)
ScanExact(vers, timestamp) ==
    IF vers = <<>> THEN NoVal
    ELSE IF vers[1].last_modified_timestamp > timestamp THEN NoVal
    ELSE IF vers[1].last_modified_timestamp = timestamp
         THEN Some(vers[1])
         ELSE ScanExact(Tail(vers), timestamp)

\* set(object_space_ctx.GetVersionTimestamps())
VersionTimestamps(vers) ==
    { vers[i].last_modified_timestamp : i \in 1..Len(vers) }

GetVersionByTimestamp(vers, timestamp, lower_bound, upper_bound) ==
    IF upper_bound THEN ScanUpperBound(vers, timestamp)
    ELSE IF lower_bound THEN ScanLowerBound(vers, timestamp)
    ELSE ScanExact(vers, timestamp)

\* The revisions of one object space, in the order the history lists them
RevisionInputs ==
    UNION { [1..n -> [last_modified_timestamp : Timestamps, is_encrypted : BOOLEAN]]
              : n \in 0..MaxVersions }

\* A revision context: the input record and its place in the history (its rid)
WithRid(input) ==
    [ i \in 1..Len(input) |->
        [rid |-> i,
         last_modified_timestamp |-> input[i].last_modified_timestamp,
         is_encrypted |-> input[i].is_encrypted] ]

NoQuery == [timestamp |-> 0, lower_bound |-> FALSE, upper_bound |-> FALSE, asked |-> FALSE]

OSCall ==
    \E t \in QueryTimestamps, lb \in BOOLEAN, ub \in BOOLEAN :
        /\ os_query' = [timestamp |-> t, lower_bound |-> lb, upper_bound |-> ub, asked |-> TRUE]
        /\ os_result' = GetVersionByTimestamp(os_versions, t, lb, ub)
        /\ UNCHANGED os_versions

OSIdle ==
    /\ os_versions = <<>>
    /\ os_query = NoQuery
    /\ os_result = NoVal

-----------------------------------------------------------------------------
(* Python dictionaries: the items in insertion order, each key once *)

EmptyDict == <<>>
DictKeys(d) == { d[i].key : i \in 1..Len(d) }
DictHas(d, k) == k \in DictKeys(d)
DictGet(d, k) == (CHOOSE i \in 1..Len(d) : d[i].key = k) \* the index of key k
DictValue(d, k) == d[DictGet(d, k)].val
\* d[k] = v: an existing key keeps its place
DictSet(d, k, v) ==
    IF DictHas(d, k)
    THEN [d EXCEPT ![DictGet(d, k)] = [key |-> k, val |-> v]]
    ELSE Append(d, [key |-> k, val |-> v])
\* del d[k]
DictDel(d, k) ==
    LET i == DictGet(d, k)
    IN  SubSeq(d, 1, i - 1) \o SubSeq(d, i + 1, Len(d))

-----------------------------------------------------------------------------
(* ObjectTreeBuilder.GetVersions *)

\* The keys of a version directory: "guid", "guid-<ext>" (ext >= 1) and
\* "guid-conflict-<conflict guid>" (sub is the conflict guid)
PageKey(guid) == [guid |-> guid, ext |-> 0, sub |-> None]
ExtGuid(guid, i) == [guid |-> guid, ext |-> i, sub |-> None]
ConflictGuid(key, conflict_guid) == [key EXCEPT !.sub = conflict_guid]

\* The extension buckets tried: range(1, 100)
ExtRangeEnd == 100

\* The extension buckets are left where they are
KeepExtBuckets(version_tree, guid, i) == version_tree

\* 'for i in range(1,100): if ext_guid not in version_tree: break; del version_tree[ext_guid]'
RECURSIVE DropExtBuckets(_, _, _)
DropExtBuckets(version_tree, guid, i) ==
    IF i >= ExtRangeEnd \/ ~DictHas(version_tree, ExtGuid(guid, i))
    THEN version_tree
    ELSE DropExtBuckets(DictDel(version_tree, ExtGuid(guid, i)), guid, i + 1)

\* A loop without the end of the range: the lowest free bucket, whatever its
\* number
AddExtBucketUncapped(version_tree, guid, revision_ctx, i) ==
    LET free == CHOOSE k \in i..(i + Len(version_tree)) :
                    /\ ~DictHas(version_tree, ExtGuid(guid, k))
                    /\ \A j \in i..(k - 1) : DictHas(version_tree, ExtGuid(guid, j))
    IN  DictSet(version_tree, ExtGuid(guid, free), revision_ctx)

\* 'for i in range(1,100): if ext_guid not in version_tree: version_tree[ext_guid] = ctx; break'
RECURSIVE AddExtBucket(_, _, _, _)
AddExtBucket(version_tree, guid, revision_ctx, i) ==
    IF i >= ExtRangeEnd THEN version_tree
    ELSE IF ~DictHas(version_tree, ExtGuid(guid, i))
         THEN DictSet(version_tree, ExtGuid(guid, i), revision_ctx)
         ELSE AddExtBucket(version_tree, guid, revision_ctx, i + 1)

\* The body of 'for revision_ctx in revision_ctx_list' that groups by guid
EnterRevision(version_tree, revision_ctx) ==
    LET guid == revision_ctx.page_persistent_guid
    IN  IF ~DictHas(version_tree, PageKey(guid))
        THEN DictSet(version_tree, PageKey(guid), revision_ctx)
        ELSE LET prev_revision_ctx == DictValue(version_tree, PageKey(guid))
             IN  IF prev_revision_ctx.last_modified_timestamp
                        < revision_ctx.last_modified_timestamp
                 THEN DropExtBuckets(DictSet(version_tree, PageKey(guid), revision_ctx),
                                     guid, 1)
                 ELSE IF revision_ctx.page_hash # prev_revision_ctx.page_hash
                 THEN AddExtBucket(version_tree, guid, revision_ctx, 1)
                 ELSE version_tree

RECURSIVE GroupByGuid(_, _)
GroupByGuid(version_tree, revision_ctx_list) ==
    IF revision_ctx_list = <<>> THEN version_tree
    ELSE GroupByGuid(EnterRevision(version_tree, revision_ctx_list[1]),
                     Tail(revision_ctx_list))

\* The object space with this gosid, or NoVal: self.object_spaces.get(gosid)
SpaceOf(spaces, gosid) ==
    IF \E i \in 1..Len(spaces) : spaces[i].gosid = gosid
    THEN Some(spaces[CHOOSE i \in 1..Len(spaces) : spaces[i].gosid = gosid])
    ELSE NoVal

\* 'for gosid in revision_ctx.conflicts': the conflict pages of one entry
RECURSIVE AddConflictPages(_, _, _, _, _)
AddConflictPages(version_tree, spaces, key, revision_ctx, gosids) ==
    IF gosids = <<>> THEN version_tree
    ELSE LET conflict_ctx ==
                 GetVersionByTimestamp(SpaceOf(spaces, gosids[1])[1].versions,
                                       revision_ctx.last_modified_timestamp, FALSE, TRUE)
             next == IF conflict_ctx = NoVal THEN version_tree
                     ELSE DictSet(version_tree,
                                  ConflictGuid(key, conflict_ctx[1].page_persistent_guid),
                                  conflict_ctx[1])
         IN  AddConflictPages(next, spaces, key, revision_ctx, Tail(gosids))

\* 'for guid, data_obj in revision_ctx.data_objects.items()'
RECURSIVE AddDataObjects(_, _)
AddDataObjects(version_tree, data_objects) ==
    IF data_objects = <<>> THEN version_tree
    ELSE AddDataObjects(DictSet(version_tree, PageKey(data_objects[1].key),
                                data_objects[1].val),
                        Tail(data_objects))

\* The loop over sorted_version_tree: the tree rebuilt in object-space order,
\* each page followed by its conflict pages and its data-store files
RECURSIVE RebuildTree(_, _, _)
RebuildTree(version_tree, spaces, sorted_version_tree) ==
    IF sorted_version_tree = <<>> THEN version_tree
    ELSE LET guid == sorted_version_tree[1].key
             revision_ctx == sorted_version_tree[1].val
             t1 == DictSet(version_tree, guid, revision_ctx)
             t2 == AddConflictPages(t1, spaces, guid, revision_ctx, revision_ctx.conflicts)
             t3 == AddDataObjects(t2, revision_ctx.data_objects)
         IN  RebuildTree(t3, spaces, Tail(sorted_version_tree))

\* The spaces of the page index, in the order of object_space_tree
RECURSIVE ObjectSpaceTree(_, _, _)
ObjectSpaceTree(spaces, index, tree) ==
    IF index = <<>> THEN tree
    ELSE LET object_space_ctx == SpaceOf(spaces, index[1])
         IN  ObjectSpaceTree(spaces, Tail(index),
                 IF object_space_ctx = NoVal THEN tree
                 ELSE DictSet(tree, index[1], object_space_ctx[1]))

\* 'for object_space_ctx in object_space_tree.values()': the upper bound at
\* 'timestamp' of every page space that has one
RECURSIVE ChosenRevisions(_, _)
ChosenRevisions(object_space_tree, timestamp) ==
    IF object_space_tree = <<>> THEN <<>>
    ELSE LET revision_ctx ==
                 GetVersionByTimestamp(object_space_tree[1].val.versions, timestamp,
                                       FALSE, TRUE)
         IN  revision_ctx \o ChosenRevisions(Tail(object_space_tree), timestamp)

\* sorted((guid, item_ctx.GetHash()) for guid, item_ctx in version_tree.items()):
\* the keys of a dictionary are distinct, so two such sorted lists are equal
\* exactly when they hold the same pairs
TreeList(version_tree) ==
    { <<version_tree[i].key, version_tree[i].val.page_hash>> : i \in 1..Len(version_tree) }

\* The candidate version GetVersions builds for one timestamp (NoVal when no
\* page space has a revision yet)
CandidateAt(spaces, index, timestamp) ==
    LET chosen == ChosenRevisions(ObjectSpaceTree(spaces, index, EmptyDict), timestamp)
        revision_ctx_list == SortedByTimestamp(chosen)
        grouped == GroupByGuid(EmptyDict, revision_ctx_list)
        sorted_version_tree ==
            SortedBy(grouped, [i \in 1..Len(grouped) |-> grouped[i].val.os_index])
        version_tree == RebuildTree(EmptyDict, spaces, sorted_version_tree)
    IN  IF chosen = <<>> THEN NoVal
        ELSE Some([Author |-> Last(revision_ctx_list).last_modified_by,
                   version_timestamp |-> Last(revision_ctx_list).last_modified_timestamp,
                   version_tree |-> version_tree,
                   tree_list |-> TreeList(version_tree)])

\* A GetVersions that never skips a candidate
SameAsPreviousNever(prev_list, tree_list) == FALSE

\* 'if prev_version_tree_list == tree_list: continue'
SameAsPrevious(prev_list, tree_list) == prev_list = tree_list

\* A GetVersions that ignores the authors when it decides to coalesce
StartsNewVersionIgnoringAuthor(vers, version_timestamp, Author, time_span) ==
    \/ vers = <<>>
    \/ /\ version_timestamp # Last(vers).LastModifiedTimeStamp
       /\ version_timestamp - Last(vers).CreatedTimeStamp >= time_span

\* A GetVersions that still coalesces a candidate exactly one time span later
StartsNewVersionPastSpan(vers, version_timestamp, Author, time_span) ==
    \/ vers = <<>>
    \/ /\ version_timestamp # Last(vers).LastModifiedTimeStamp
       /\ version_timestamp - Last(vers).CreatedTimeStamp > time_span
    \/ /\ Last(vers).Author # None
       /\ Author # None
       /\ Last(vers).Author # Author

\* A GetVersions that starts a new version for a new author only
StartsNewVersionForAuthorOnly(vers, version_timestamp, Author, time_span) ==
    \/ vers = <<>>
    \/ /\ Last(vers).Author # None
       /\ Author # None
       /\ Last(vers).Author # Author

\* The condition under which a candidate starts a new version entry
\* (rev is the last entry of self.versions)
StartsNewVersion(vers, version_timestamp, Author, time_span) ==
    \/ vers = <<>>
    \/ /\ version_timestamp # Last(vers).LastModifiedTimeStamp
       /\ version_timestamp - Last(vers).CreatedTimeStamp >= time_span
    \/ /\ Last(vers).Author # None
       /\ Author # None
       /\ Last(vers).Author # Author

\* self.versions after the candidate has been emitted
EmitVersion(vers, cand, time_span) ==
    IF StartsNewVersion(vers, cand.version_timestamp, cand.Author, time_span)
    THEN Append(vers, [directory |-> cand.version_tree,
                       CreatedTimeStamp |-> cand.version_timestamp,
                       Author |-> cand.Author,
                       LastModifiedTimeStamp |-> cand.version_timestamp])
    ELSE [vers EXCEPT ![Len(vers)] =
            [@ EXCEPT !.directory = cand.version_tree,
                      !.LastModifiedTimeStamp = cand.version_timestamp]]

\* The version timestamps of the page spaces of the index and of every conflict space
AllTimestamps(spaces, index) ==
    LET tree == ObjectSpaceTree(spaces, index, EmptyDict)
    IN  UNION { VersionTimestamps(tree[i].val.versions) : i \in 1..Len(tree) }
        \cup UNION { VersionTimestamps(spaces[i].versions) :
                        i \in { j \in 1..Len(spaces) : spaces[j].is_conflict_space } }

\* sorted(timestamps) of a set of numbers
RECURSIVE SortedSet(_)
SortedSet(S) ==
    IF S = {} THEN <<>>
    ELSE LET m == CHOOSE x \in S : \A y \in S : x <= y
         IN  <<m>> \o SortedSet(S \ {m})

NoCandidate == [cand |-> NoVal, before |-> <<>>, prev_list |-> {}, timestamp |-> 0]

\* A GetVersions that takes self.versions for unset at every call
VersionsComputedNever(is_none) == FALSE

\* 'if self.versions is not None'
VersionsComputed(is_none) == ~is_none

\* A call of GetVersions up to the loop over the timestamps, or up to its
\* return when self.versions is set; a builder is asked at most MaxCalls times
GetVersionsBegin ==
    /\ gv_pc \in {"start", "done"}
    /\ Len(gv_returned) < MaxCalls
    /\ IF VersionsComputed(versions_is_none)
       THEN /\ gv_returned' = Append(gv_returned,
                                     [list |-> versions, computed |-> FALSE])
            /\ gv_pc' = "done"
            /\ UNCHANGED <<versions, versions_is_none, prev_version_tree_list,
                           timestamps>>
       ELSE /\ versions' = <<>>
            /\ versions_is_none' = FALSE
            /\ prev_version_tree_list' = {}
            /\ timestamps' = SortedSet(AllTimestamps(object_spaces, page_index))
            /\ gv_pc' = "loop"
            /\ UNCHANGED gv_returned
    /\ UNCHANGED <<object_spaces, page_index, combine_revisions_time_span, gv_last>>

\* One iteration of 'for timestamp in timestamps'
GetVersionsStep ==
    /\ gv_pc = "loop"
    /\ timestamps # <<>>
    /\ LET timestamp == timestamps[1]
           cand == CandidateAt(object_spaces, page_index, timestamp)
       IN  /\ gv_last' = [cand |-> cand, before |-> versions,
                          prev_list |-> prev_version_tree_list, timestamp |-> timestamp]
           /\ IF cand = NoVal \/ SameAsPrevious(prev_version_tree_list, cand[1].tree_list)
              THEN UNCHANGED <<versions, prev_version_tree_list>>
              ELSE /\ versions' = EmitVersion(versions, cand[1], combine_revisions_time_span)
                   /\ prev_version_tree_list' = cand[1].tree_list
    /\ timestamps' = Tail(timestamps)
    /\ UNCHANGED <<object_spaces, page_index, combine_revisions_time_span, gv_pc,
                   versions_is_none, gv_returned>>

\* 'return self.versions'
GetVersionsEnd ==
    /\ gv_pc = "loop"
    /\ timestamps = <<>>
    /\ gv_pc' = "done"
    /\ gv_returned' = Append(gv_returned, [list |-> versions, computed |-> TRUE])
    /\ UNCHANGED <<object_spaces, page_index, combine_revisions_time_span, versions,
                   prev_version_tree_list, timestamps, gv_last, versions_is_none>>

\* b'': the hash of a data-store file
NoHash == ""
Authors == {None, "Alice", "Bob"}
Hashes == {"h1", "h2"}
Guids == {"g1", "g2"}
\* --combine-revisions in minutes
CombineOptions == {0, 1}

\* A revision context of a page space
RevisionCtx(gosid, rid, ts, author, guid, hash) ==
    [gosid |-> gosid, rid |-> rid, os_index |-> gosid,
     last_modified_timestamp |-> ts, last_modified_by |-> author,
     page_persistent_guid |-> guid, page_hash |-> hash,
     conflicts |-> <<>>, data_objects |-> EmptyDict,
     conflict_author |-> None, is_encrypted |-> FALSE]

\* ObjectSpaceBuilderCtx.__init__: the versions sorted, the conflict flag set
ObjectSpaceCtx(gosid, revs) ==
    LET vers == BuildVersions(revs)
    IN  [gosid |-> gosid, os_index |-> gosid, versions |-> vers,
         is_conflict_space |-> \E i \in 1..Len(vers) : vers[i].conflict_author # None]

\* The histories of the first page: at each tick at most one revision
FirstPageHistories ==
    UNION { [T -> Authors \X Hashes] : T \in SUBSET (1..MaxTick) }

\* The revisions of a history, latest first (the order of the history proxies
\* does not follow the timestamps)
RECURSIVE HistoryRevisions(_, _)
HistoryRevisions(h, guid) ==
    IF DOMAIN h = {} THEN <<>>
    ELSE LET k == CHOOSE x \in DOMAIN h : \A y \in DOMAIN h : y <= x
             rest == [x \in DOMAIN h \ {k} |-> h[x]]
         IN  <<RevisionCtx(1, k, k * Tick, h[k][1], guid, h[k][2])>>
             \o HistoryRevisions(rest, guid)

\* The second page has at most one revision
SecondPageAuthors == {None, "Bob"}
SecondPageRevisions ==
    {<<>>} \cup
    { <<RevisionCtx(2, 1, ts, a, g, h)>> :
        ts \in Timestamps, a \in SecondPageAuthors, g \in Guids, h \in Hashes }

InitGV ==
    /\ \E h \in FirstPageHistories, r2 \in SecondPageRevisions :
          object_spaces = << ObjectSpaceCtx(1, HistoryRevisions(h, "g1")),
                             ObjectSpaceCtx(2, r2) >>
    /\ page_index = <<1, 2>>
    /\ \E minutes \in CombineOptions :
          combine_revisions_time_span = minutes * FiletimePerMinute
    /\ versions = <<>>
    /\ prev_version_tree_list = {}
    /\ timestamps = <<>>
    /\ gv_pc = "start"
    /\ gv_last = NoCandidate
    /\ versions_is_none = TRUE
    /\ gv_returned = <<>>

GVIdle ==
    /\ object_spaces = <<>>
    /\ page_index = <<>>
    /\ combine_revisions_time_span = 0
    /\ versions = <<>>
    /\ prev_version_tree_list = {}
    /\ timestamps = <<>>
    /\ gv_pc = "idle"
    /\ gv_last = NoCandidate
    /\ versions_is_none = TRUE
    /\ gv_returned = <<>>

-----------------------------------------------------------------------------
(* RevisionBuilderCtx: GetObjectReference and the loop over the root roles *)

Oids == 1..MaxOid

\* What revision.GetObjectById(oid) can answer: None, or a property set, of
\* which the model keeps the object references (none, one or two) in the order
\* make_object walks them
Unknown == [known |-> FALSE, present |-> FALSE, refs |-> <<>>]
PropertySets ==
    { [known |-> TRUE, present |-> TRUE, refs |-> r] :
        r \in {<<>>} \cup { <<a>> : a \in Oids } \cup { <<a, b>> : a, b \in Oids } }
Missing == [known |-> TRUE, present |-> FALSE, refs |-> <<>>]

\* A GetObjectReference that treats every stored entry as the sentinel
IsSentinelOrBuilt(obj) == obj # "none"

\* 'if obj is NotImplemented'
IsSentinel(obj) == obj = "NotImplemented"

\* A GetObjectReference that never finds an object already built
IsBuiltNever(obj) == FALSE

\* 'if obj is not None' (after the sentinel test)
IsBuilt(obj) == obj = "built"

\* GetObjectReference(oid), called with 'stack' the call stack of the caller:
\* it raises, returns the stored object, or starts MakeObject
GetObjectReference(oid, stack) ==
    IF IsSentinel(obj_dict[oid])
    THEN /\ obj_pc' = "CircularObjectReference"
         /\ UNCHANGED <<revision_objects, obj_dict, make_count, stored_count>>
         /\ call_stack' = stack
    ELSE IF IsBuilt(obj_dict[oid])
    THEN /\ stored_count' = [stored_count EXCEPT ![oid] = 1]
         /\ call_stack' = stack
         /\ UNCHANGED <<revision_objects, obj_dict, make_count, obj_pc>>
    ELSE /\ obj_dict' = [obj_dict EXCEPT ![oid] = "NotImplemented"]
         /\ \E prop_set \in PropertySets \cup {Missing} :
              /\ revision_objects[oid].known => prop_set = revision_objects[oid]
              /\ revision_objects' = [revision_objects EXCEPT ![oid] = prop_set]
              /\ IF ~prop_set.present
                 THEN /\ obj_pc' = "ObjectNotFound"
                      /\ call_stack' = stack
                      /\ UNCHANGED make_count
                 ELSE /\ call_stack' = Append(stack, [oid |-> oid, next |-> 1])
                      /\ make_count' = [make_count EXCEPT ![oid] = @ + 1]
                      /\ UNCHANGED obj_pc
         /\ UNCHANGED stored_count

\* One iteration of 'for role in self.revision.GetRootObjectRoles()' up to the
\* call of GetObjectReference for the role's root object
BuildRole ==
    /\ obj_pc = "running"
    /\ call_stack = <<>>
    /\ Len(revision_roots) < MaxRoles
    /\ \E oid \in Oids :
          /\ revision_roots' = Append(revision_roots, oid)
          /\ GetObjectReference(oid, <<>>)

\* make_object meets the next object reference of the object under construction
WalkReference ==
    /\ obj_pc = "running"
    /\ call_stack # <<>>
    /\ LET frame == Last(call_stack)
           refs == revision_objects[frame.oid].refs
       IN  /\ frame.next <= Len(refs)
           /\ GetObjectReference(refs[frame.next],
                  [call_stack EXCEPT ![Len(call_stack)].next = frame.next + 1])
    /\ UNCHANGED revision_roots

\* make_object is through: 'self.obj_dict[oid] = obj; return obj'
FinishObject ==
    /\ obj_pc = "running"
    /\ call_stack # <<>>
    /\ LET frame == Last(call_stack)
       IN  /\ frame.next > Len(revision_objects[frame.oid].refs)
           /\ obj_dict' = [obj_dict EXCEPT ![frame.oid] = "built"]
           /\ call_stack' = SubSeq(call_stack, 1, Len(call_stack) - 1)
    /\ UNCHANGED <<revision_objects, revision_roots, obj_pc, make_count, stored_count>>

\* The loop over the roles is through
EndRoles ==
    /\ obj_pc = "running"
    /\ call_stack = <<>>
    /\ revision_roots # <<>>
    /\ obj_pc' = "done"
    /\ UNCHANGED <<revision_objects, revision_roots, obj_dict, call_stack,
                   make_count, stored_count>>

InitObj ==
    /\ revision_objects = [o \in Oids |-> Unknown]
    /\ revision_roots = <<>>
    /\ obj_dict = [o \in Oids |-> "none"]
    /\ call_stack = <<>>
    /\ obj_pc = "running"
    /\ make_count = [o \in Oids |-> 0]
    /\ stored_count = [o \in Oids |-> 0]

ObjIdle ==
    /\ revision_objects = <<>>
    /\ revision_roots = <<>>
    /\ obj_dict = <<>>
    /\ call_stack = <<>>
    /\ obj_pc = "idle"
    /\ make_count = <<>>
    /\ stored_count = <<>>

-----------------------------------------------------------------------------
(* RevisionManifestList and RevisionManifest.__init__: one revision-manifest *)
(* list is decoded node by node                                              *)

NULL_ExGUID == 0
ROOT_ROLE_CONTENTS == 1
ROOT_ROLE_PAGE_METADATA == 2
ROOT_ROLE_REVISION_METADATA == 4
Rids == 1..MaxRid

\* An empty dict, and dict[key] = value
NoEntries == [k \in {} |-> 0]
WithEntry(dict, key, value) == (key :> value) @@ dict

\* A file node: its ID and the fields the decoder reads
FileNode(id) ==
    [ID |-> id, rid |-> NULL_ExGUID, ridDependent |-> NULL_ExGUID,
     odcsDefault |-> 0, ObjectGroupID |-> 0, RootRole |-> 0, coidRoot |-> 0,
     oidRoot |-> 0, entries |-> NoEntries]

\* next(node_iter) on an exhausted list
StopIteration == FileNode("StopIteration")

RevisionManifestStartIds ==
    {"RevisionManifestStart4FND", "RevisionManifestStart6FND",
     "RevisionManifestStart7FND"}
RevisionRoleIds ==
    {"RevisionRoleDeclarationFND", "RevisionRoleAndContextDeclarationFND"}
GlobalIdTableStartIds == {"GlobalIdTableStart2FND", "GlobalIdTableStartFNDX"}
\* A second loop that also lets object-group references pass
ObjectDeclarationIdsAndGroups ==
    {"ObjectDeclarationWithRefCountFNDX", "ObjectDeclarationWithRefCount2FNDX",
     "ObjectRevisionWithRefCountFNDX", "ObjectRevisionWithRefCount2FNDX",
     "ObjectGroupListReferenceFND"}
ObjectDeclarationIds ==
    {"ObjectDeclarationWithRefCountFNDX", "ObjectDeclarationWithRefCount2FNDX",
     "ObjectRevisionWithRefCountFNDX", "ObjectRevisionWithRefCount2FNDX"}

\* The start nodes of the revisions of a list
StartNodes ==
    { [FileNode("RevisionManifestStart6FND") EXCEPT
            !.rid = r, !.ridDependent = d, !.odcsDefault = e] :
        r \in Rids, d \in {NULL_ExGUID} \cup Rids, e \in {0, 1} }

\* The nodes every list holds: the list start, a role declaration, the end of
\* a revision, and a node no list should hold at this place
CommonNodes ==
    { FileNode("RevisionManifestListStartFND"),
      FileNode("RevisionRoleDeclarationFND"),
      FileNode("RevisionManifestEndFND"),
      FileNode("GlobalIdTableEntryFNDX") }

\* Lists of plain and encrypted revisions with any dependency between them,
\* whose bodies hold encryption keys and object groups
DependencyNodes ==
    CommonNodes \cup StartNodes \cup
    { FileNode("ObjectDataEncryptionKeyV2FNDX"),
      [FileNode("ObjectGroupListReferenceFND") EXCEPT
            !.ObjectGroupID = 1, !.entries = (1 :> 1)] }

\* Lists of plain revisions, the second depending on the first, whose bodies
\* hold every kind of node the two loops tell apart, with two root roles and
\* one compact id, which the object group and the global id table resolve
\* differently
BodyNodes ==
    CommonNodes \cup
    { [FileNode("RevisionManifestStart6FND") EXCEPT !.rid = 1],
      [FileNode("RevisionManifestStart6FND") EXCEPT
            !.rid = 2, !.ridDependent = 1],
      [FileNode("ObjectGroupListReferenceFND") EXCEPT
            !.ObjectGroupID = 1, !.entries = (1 :> 1)],
      FileNode("ObjectInfoDependencyOverridesFND"),
      [FileNode("RootObjectReference2FNDX") EXCEPT
            !.RootRole = ROOT_ROLE_CONTENTS, !.coidRoot = 1],
      [FileNode("RootObjectReference3FND") EXCEPT
            !.RootRole = ROOT_ROLE_PAGE_METADATA, !.oidRoot = 2],
      [FileNode("GlobalIdTableStart2FND") EXCEPT !.entries = (1 :> 3)],
      FileNode("DataSignatureGroupDefinitionFND"),
      FileNode("ObjectDeclarationWithRefCountFNDX") }

\* Lists of plain revisions that depend on one another in a chain, the third
\* on the second or on the first, whose bodies hold root references only
ChainNodes ==
    { FileNode("RevisionManifestListStartFND"),
      FileNode("RevisionManifestEndFND"),
      [FileNode("RevisionManifestStart6FND") EXCEPT !.rid = 1],
      [FileNode("RevisionManifestStart6FND") EXCEPT
            !.rid = 2, !.ridDependent = 1],
      [FileNode("RevisionManifestStart6FND") EXCEPT
            !.rid = 1, !.ridDependent = 2],
      [FileNode("RootObjectReference3FND") EXCEPT
            !.RootRole = ROOT_ROLE_CONTENTS, !.oidRoot = 1],
      [FileNode("RootObjectReference3FND") EXCEPT
            !.RootRole = ROOT_ROLE_CONTENTS, !.oidRoot = 3],
      [FileNode("RootObjectReference3FND") EXCEPT
            !.RootRole = ROOT_ROLE_PAGE_METADATA, !.oidRoot = 2] }

\* The most revisions a list over an alphabet holds: the chains hold one more
MostRevisions(alphabet) ==
    IF alphabet = ChainNodes THEN MaxRevisions + 1 ELSE MaxRevisions

\* What next(node_iter) can return
NextNodes == node_alphabet \cup {StopIteration}

\* GlobalIdTable(node_iter, prev_global_id_table): the previous table seeds the
\* new one, the entries of the run are applied over it
GlobalIdTable(entries, prev) ==
    IF prev = NoVal THEN entries ELSE entries @@ prev[1]

NoRevision ==
    [rid |-> NULL_ExGUID, ridDependent |-> NULL_ExGUID, odcsDefault |-> 0,
     root_objects |-> NoEntries, global_id_table |-> NoVal,
     object_groups |-> {}, dep_revision |-> 0, order |-> 0]

NoStart ==
    [node |-> FileNode("none"), before |-> NoEntries, order |-> 0,
     own |-> NoEntries]

\* The dict objects the revisions of the list have made for self.root_objects,
\* in the order the revisions were started, and the one self.root_objects of
\* the revision being decoded refers to
NoRootDicts == [dicts |-> <<>>, mine |-> 0]

\* self.root_objects = {} of a revision that depends on none
NewRootObjects(heap) ==
    [dicts |-> Append(heap.dicts, NoEntries), mine |-> Len(heap.dicts) + 1]

\* A revision that goes on with the dict of its dependent revision
SharedRootObjects(heap, dep_order) ==
    [dicts |-> Append(heap.dicts, NoEntries), mine |-> dep_order]

\* self.root_objects = dep_revision.root_objects.copy(): a dict of its own
\* with the items of the dependent revision's
CopiedRootObjects(heap, dep_order) ==
    [dicts |-> Append(heap.dicts, heap.dicts[dep_order]),
     mine |-> Len(heap.dicts) + 1]

\* self.root_objects[role] = value
SetRootObject(heap, role, value) ==
    [heap EXCEPT !.dicts[heap.mine] = WithEntry(@, role, value)]

\* The dependent revision is accepted whatever its odcsDefault
SameOdcsDefaultAlways(odcsDefault, dep_odcsDefault) == TRUE

\* assert(self.odcsDefault == dep_revision.odcsDefault)
SameOdcsDefault(odcsDefault, dep_odcsDefault) == odcsDefault = dep_odcsDefault

\* The step raises: nothing but the position changes
RMLRaise(exception) ==
    /\ rml_pc' = exception
    /\ UNCHANGED <<root_dicts, node_alphabet, revisions, revision, node, obj_group,
                   prev_global_id_table, rev_count, rml_spin, rml_start>>

\* node = next(node_iter), then the loop at 'pc' goes on
ReadNextNode(pc) ==
    \E n \in NextNodes :
        /\ rml_pc' = IF n = StopIteration THEN "StopIteration" ELSE pc
        /\ node' = IF n = StopIteration THEN node ELSE n
        /\ rml_spin' = FALSE

\* self.root_objects[role] = value in the revision being decoded: the dict
\* self.root_objects refers to takes the item, and self.root_objects reads it
StoreRootObject(role, value) ==
    /\ root_dicts' = SetRootObject(root_dicts, role, value)
    /\ revision' = [revision EXCEPT !.root_objects =
                        root_dicts'.dicts[root_dicts'.mine]]
    /\ rml_start' = [rml_start EXCEPT !.own = WithEntry(@, role, value)]

\* node = next(node_iter); a node that is not the list start is an error
RevisionManifestListStart ==
    /\ rml_pc = "start"
    /\ \E n \in NextNodes :
          /\ rml_pc' = IF n = StopIteration THEN "StopIteration"
                       ELSE IF n.ID # "RevisionManifestListStartFND"
                            THEN "UnexpectedFileNode"
                            ELSE "list"
          /\ node' = IF n = StopIteration THEN node ELSE n
    /\ UNCHANGED <<root_dicts, node_alphabet, revisions, revision, obj_group,
                   prev_global_id_table, rev_count, rml_spin, rml_start>>

\* RevisionManifest.__init__ up to the first loop: the fields of the start
\* node, the dependent revision, the first node of the body
RevisionManifestEnter(n) ==
    LET dep_revision == IF n.ridDependent \in DOMAIN revisions
                        THEN Some(revisions[n.ridDependent]) ELSE NoVal
        started == [node |-> n, before |-> revisions, order |-> rev_count + 1,
                    own |-> NoEntries]
        heap == IF n.ridDependent # NULL_ExGUID /\ dep_revision # NoVal
                THEN CopiedRootObjects(root_dicts, dep_revision[1].order)
                ELSE NewRootObjects(root_dicts)
        failed(exception) ==
            /\ rml_pc' = exception
            /\ rml_start' = started
            /\ rev_count' = rev_count + 1
            /\ revision' = [NoRevision EXCEPT !.rid = n.rid,
                                !.ridDependent = n.ridDependent,
                                !.odcsDefault = n.odcsDefault,
                                !.order = rev_count + 1]
            /\ root_dicts' = NewRootObjects(root_dicts)
            /\ UNCHANGED <<node_alphabet, revisions, node, obj_group,
                           prev_global_id_table, rml_spin>>
    IN  IF n.ridDependent # NULL_ExGUID /\ dep_revision = NoVal
        THEN failed("RevisionMismatch")
        ELSE IF /\ n.ridDependent # NULL_ExGUID
                /\ ~SameOdcsDefault(n.odcsDefault, dep_revision[1].odcsDefault)
        THEN failed("AssertionError")
        ELSE
            /\ revision' =
                  [rid |-> n.rid, ridDependent |-> n.ridDependent,
                   odcsDefault |-> n.odcsDefault,
                   root_objects |-> heap.dicts[heap.mine],
                   global_id_table |-> NoVal,
                   object_groups |-> {},
                   dep_revision |-> IF n.ridDependent # NULL_ExGUID
                                    THEN dep_revision[1].order ELSE 0,
                   order |-> rev_count + 1]
            /\ prev_global_id_table' =
                  IF n.ridDependent # NULL_ExGUID
                  THEN dep_revision[1].global_id_table ELSE NoVal
            /\ obj_group' = NoVal
            /\ rml_start' = started
            /\ rev_count' = rev_count + 1
            /\ \E first \in NextNodes :
                  IF first = StopIteration
                  THEN /\ rml_pc' = "StopIteration"
                       /\ UNCHANGED <<node, rml_spin>>
                  ELSE IF first.ID = "ObjectDataEncryptionKeyV2FNDX"
                  THEN ReadNextNode("loop1")
                  ELSE /\ rml_pc' = "loop1"
                       /\ node' = first
                       /\ rml_spin' = FALSE
            /\ root_dicts' = heap
            /\ UNCHANGED <<node_alphabet, revisions>>

\* One iteration of 'for node in node_iter' in RevisionManifestList; the list
\* holds at most MostRevisions(node_alphabet) revisions
RevisionManifestListNext ==
    /\ rml_pc = "list"
    /\ \E n \in NextNodes :
          /\ n.ID \in RevisionManifestStartIds =>
                rev_count < MostRevisions(node_alphabet)
          /\ IF n = StopIteration
             THEN /\ rml_pc' = "done"
                  /\ UNCHANGED <<root_dicts, node_alphabet, revisions, revision, node,
                                 obj_group, prev_global_id_table, rev_count,
                                 rml_spin, rml_start>>
             ELSE IF n.ID \in RevisionManifestStartIds
             THEN RevisionManifestEnter(n)
             ELSE /\ rml_pc' = IF n.ID \in RevisionRoleIds
                               THEN "list" ELSE "UnexpectedFileNode"
                  /\ node' = n
                  /\ UNCHANGED <<root_dicts, node_alphabet, revisions, revision, obj_group,
                                 prev_global_id_table, rev_count, rml_spin,
                                 rml_start>>

\* RevisionManifest.__init__ returns: revisions[revision.rid] = revision, and
\* the revision is yielded
RevisionManifestReturn ==
    /\ revisions' = WithEntry(revisions, revision.rid, revision)
    /\ rml_pc' = "list"
    /\ UNCHANGED <<root_dicts, node_alphabet, revision, node, obj_group,
                   prev_global_id_table, rev_count, rml_spin, rml_start>>

\* One iteration of the first loop of RevisionManifest.__init__, and what
\* follows the loop when it ends
RevisionManifestLoop1 ==
    /\ rml_pc = "loop1"
    /\ LET nid == node.ID
       IN  IF nid = "RevisionManifestEndFND"
           THEN RevisionManifestReturn
           ELSE IF nid = "ObjectGroupListReferenceFND"
           THEN IF revision.odcsDefault # 0
                THEN \* continue: the loop tests the same node again
                     /\ rml_spin' = TRUE
                     /\ UNCHANGED <<root_dicts, node_alphabet, revisions, revision, node,
                                    obj_group, prev_global_id_table, rml_pc,
                                    rev_count, rml_start>>
                ELSE /\ obj_group' = Some(node.entries)
                     /\ revision' =
                           [revision EXCEPT !.object_groups =
                                @ \cup {node.ObjectGroupID}]
                     /\ ReadNextNode("loop1")
                     /\ UNCHANGED <<root_dicts, node_alphabet, revisions,
                                    prev_global_id_table, rev_count, rml_start>>
           ELSE IF nid = "ObjectInfoDependencyOverridesFND"
           THEN /\ ReadNextNode("loop1")
                /\ UNCHANGED <<root_dicts, node_alphabet, revisions, revision, obj_group,
                               prev_global_id_table, rev_count, rml_start>>
           ELSE IF nid = "RootObjectReference2FNDX"
           THEN IF obj_group = NoVal
                THEN RMLRaise("UnboundLocalError")
                ELSE IF node.coidRoot \notin DOMAIN obj_group[1]
                THEN RMLRaise("KeyError")
                ELSE /\ StoreRootObject(node.RootRole,
                                        obj_group[1][node.coidRoot])
                     /\ ReadNextNode("loop1")
                     /\ UNCHANGED <<node_alphabet, revisions, obj_group,
                                    prev_global_id_table, rev_count>>
           ELSE IF nid \in GlobalIdTableStartIds
           THEN /\ revision' =
                      [revision EXCEPT !.global_id_table =
                          Some(GlobalIdTable(node.entries, prev_global_id_table))]
                /\ ReadNextNode("loop2")
                /\ UNCHANGED <<root_dicts, node_alphabet, revisions, obj_group,
                               prev_global_id_table, rev_count, rml_start>>
           ELSE \* break: the second loop takes the node
                /\ rml_pc' = "loop2"
                /\ UNCHANGED <<root_dicts, node_alphabet, revisions, revision, node,
                               obj_group, prev_global_id_table, rev_count,
                               rml_spin, rml_start>>

\* One iteration of the second loop of RevisionManifest.__init__
RevisionManifestLoop2 ==
    /\ rml_pc = "loop2"
    /\ LET nid == node.ID
       IN  IF nid = "RevisionManifestEndFND"
           THEN RevisionManifestReturn
           ELSE IF \/ nid = "ObjectInfoDependencyOverridesFND"
                   \/ nid = "DataSignatureGroupDefinitionFND"
                   \/ nid \in ObjectDeclarationIds
           THEN /\ ReadNextNode("loop2")
                /\ UNCHANGED <<root_dicts, node_alphabet, revisions, revision, obj_group,
                               prev_global_id_table, rev_count, rml_start>>
           ELSE IF nid = "RootObjectReference3FND"
           THEN /\ StoreRootObject(node.RootRole, node.oidRoot)
                /\ ReadNextNode("loop2")
                /\ UNCHANGED <<node_alphabet, revisions, obj_group,
                               prev_global_id_table, rev_count>>
           ELSE IF nid = "RootObjectReference2FNDX"
           THEN IF revision.global_id_table = NoVal
                THEN RMLRaise("TypeError")
                ELSE IF node.coidRoot \notin DOMAIN revision.global_id_table[1]
                THEN RMLRaise("KeyError")
                ELSE /\ StoreRootObject(node.RootRole,
                            revision.global_id_table[1][node.coidRoot])
                     /\ ReadNextNode("loop2")
                     /\ UNCHANGED <<node_alphabet, revisions, obj_group,
                                    prev_global_id_table, rev_count>>
           ELSE RMLRaise("UnexpectedFileNode")

InitRML ==
    /\ node_alphabet \in {DependencyNodes, BodyNodes, ChainNodes}
    /\ revisions = NoEntries
    /\ revision = NoRevision
    /\ node = FileNode("none")
    /\ obj_group = NoVal
    /\ prev_global_id_table = NoVal
    /\ rml_pc = "start"
    /\ rev_count = 0
    /\ rml_spin = FALSE
    /\ rml_start = NoStart
    /\ root_dicts = NoRootDicts

RMLIdle ==
    /\ node_alphabet = {}
    /\ revisions = NoEntries
    /\ revision = NoRevision
    /\ node = FileNode("none")
    /\ obj_group = NoVal
    /\ prev_global_id_table = NoVal
    /\ rml_pc = "idle"
    /\ rev_count = 0
    /\ rml_spin = FALSE
    /\ rml_start = NoStart
    /\ root_dicts = NoRootDicts

-----------------------------------------------------------------------------
(* reader.py: onestore_reader *)

\* The file images: each byte holds its own position, so the bytes a read
\* returns tell where they were read
FileImages == { [i \in 1..n |-> i - 1] : n \in 0..MaxData }

\* The sizes and offsets passed to the reader
Sizes == 0..(MaxData + 1)
UintSizes == {1, 2, 4, 8}

NoReader == [slice_offset |-> 0, offset |-> 0, length |-> 0]
ReaderRaised(exception) == [error |-> exception, reader |-> NoReader]
ReaderMade(rd) == [error |-> "", reader |-> rd]

\* data[a:b] for 0 <= a <= b
PySlice(data, a, b) ==
    SubSeq(data, a + 1, IF b < Len(data) THEN b ELSE Len(data))

\* int.from_bytes(bytes, byteorder='little', signed=False)
RECURSIVE FromBytesLittle(_)
FromBytesLittle(bytes) ==
    IF bytes = <<>> THEN 0
    ELSE bytes[1] + 256 * FromBytesLittle(Tail(bytes))

\* onestore_reader(data, length, slice_offset)
onestore_reader(data_len, length, slice_offset) ==
    LET len == IF length = NoVal THEN data_len - slice_offset ELSE length[1]
    IN  IF slice_offset > data_len THEN ReaderRaised("EndOfBuffer")
        ELSE IF len > data_len - slice_offset THEN ReaderRaised("EndOfBuffer")
        ELSE ReaderMade([slice_offset |-> slice_offset, offset |-> 0,
                         length |-> len])

\* A file chunk reference, the nil reference (stp all ones, cb = 0) and the
\* zero one
FcrNil == [stp |-> -1, cb |-> 0]
IsNil(ref) == ref = FcrNil
IsZero(ref) == ref.stp = 0 /\ ref.cb = 0
FileChunkRefs ==
    { [stp |-> a, cb |-> b] : a \in 0..MaxData, b \in 0..MaxData } \cup {FcrNil}

\* self.clone(ref, offset, additional_offset, length); ref, offset and length
\* are NoVal when not given
clone(rd, data_len, ref, offset, additional_offset, length) ==
    IF /\ ref # NoVal
       /\ \/ rd.slice_offset # 0
          \/ IsNil(ref[1])
          \/ IsZero(ref[1])
          \/ length # NoVal
    THEN ReaderRaised("AssertionError")
    ELSE LET from == IF ref # NoVal THEN ref[1].stp
                     ELSE IF offset = NoVal THEN rd.offset
                     ELSE offset[1]
             len == IF ref # NoVal THEN Some(ref[1].cb) ELSE length
             start == from + additional_offset
         IN  IF start > rd.length THEN ReaderRaised("EndOfBuffer")
             ELSE IF len # NoVal /\ len[1] + start > rd.length
             THEN ReaderRaised("EndOfBuffer")
             ELSE onestore_reader(data_len,
                      Some(IF len = NoVal THEN rd.length - start ELSE len[1]),
                      start + rd.slice_offset)

\* A check that lets a read run one byte past the window
check_read_lenient(rd, length) == rd.offset + length > rd.length + 1

\* self.check_read(length) raises
check_read(rd, length) == rd.offset + length > rd.length

\* self.remaining()
remaining(rd) == rd.length - rd.offset

\* self.skip(skip_bytes)
skip(rd, skip_bytes) ==
    IF check_read(rd, skip_bytes) THEN [error |-> "EndOfBuffer", reader |-> rd]
    ELSE [error |-> "", reader |-> [rd EXCEPT !.offset = @ + skip_bytes]]

\* self.read_bytes(length)
read_bytes(rd, data, length) ==
    IF check_read(rd, length)
    THEN [error |-> "EndOfBuffer", reader |-> rd, bytes |-> <<>>]
    ELSE [error |-> "",
          reader |-> [rd EXCEPT !.offset = @ + length],
          bytes |-> PySlice(data, rd.offset + rd.slice_offset,
                            rd.offset + rd.slice_offset + length)]

\* self.read_bytes_at(offset, length)
read_bytes_at(rd, data, offset, length) ==
    IF check_read(rd, length + offset)
    THEN [error |-> "EndOfBuffer", reader |-> rd, bytes |-> <<>>]
    ELSE [error |-> "",
          reader |-> rd,
          bytes |-> PySlice(data, offset + rd.offset + rd.slice_offset,
                            offset + rd.offset + rd.slice_offset + length)]

\* A tail check that only refuses tails longer than the window
TailPastWindow(rd, length) == 0 > rd.length + length

\* 'if self.offset > self.length + length' in extract, length negative
TailPastCursor(rd, length) == rd.offset > rd.length + length

\* self.extract(length): the reader made and what becomes of self
extract(rd, data_len, length) ==
    IF length # NoVal /\ length[1] < 0
    THEN IF TailPastCursor(rd, length[1])
         THEN [error |-> "EndOfBuffer", reader |-> NoReader, parent |-> rd]
         ELSE LET made == clone(rd, data_len, NoVal,
                                Some(rd.length + length[1]), 0, Some(-length[1]))
              IN  IF made.error # ""
                  THEN [error |-> made.error, reader |-> NoReader, parent |-> rd]
                  ELSE [error |-> "", reader |-> made.reader,
                        parent |-> [rd EXCEPT !.length = @ + length[1]]]
    ELSE LET made == clone(rd, data_len, NoVal, NoVal, 0, length)
         IN  IF made.error # ""
             THEN [error |-> made.error, reader |-> NoReader, parent |-> rd]
             ELSE LET skipped == skip(rd, made.reader.length)
                  IN  [error |-> skipped.error,
                       reader |-> IF skipped.error = "" THEN made.reader
                                  ELSE NoReader,
                       parent |-> skipped.reader]

\* The record of a call on reader r
ReaderCall(op, r, length, offset, additional_offset, ref, error, bytes, made) ==
    [op |-> op, r |-> r, length |-> length, offset |-> offset,
     additional_offset |-> additional_offset, ref |-> ref,
     before |-> readers, error |-> error, bytes |-> bytes, made |-> made]

NoReaderCall ==
    [op |-> "none", r |-> 0, length |-> NoVal, offset |-> NoVal,
     additional_offset |-> 0, ref |-> NoVal, before |-> <<>>, error |-> "",
     bytes |-> <<>>, made |-> 0]

Optional(S) == {NoVal} \cup { Some(x) : x \in S }

\* A run is followed up to one call, which rd_last records; the calls before
\* it leave no record
Followed == rd_last = NoReaderCall
Recorded(call) == rd_last' \in {NoReaderCall, call}

\* The program keeps the reader it called and the reader the call made
Keep(r, rd, made) == IF made.error = "" THEN <<rd, made.reader>>
                     ELSE [readers EXCEPT ![r] = rd]

\* reader.clone(ref) or reader.clone(offset=, additional_offset=, length=)
RDClone ==
    /\ Followed
    /\ \E r \in 1..Len(readers), ref \in Optional(FileChunkRefs),
          offset \in Optional(Sizes), additional_offset \in {0, 1},
          length \in Optional(Sizes) :
          /\ ref # NoVal => (offset = NoVal /\ length \in {NoVal, Some(0)})
          /\ LET made == clone(readers[r], Len(rd_data), ref, offset,
                               additional_offset, length)
             IN  /\ readers' = Keep(r, readers[r], made)
                 /\ Recorded(ReaderCall("clone", r, length, offset,
                                        additional_offset, ref, made.error, <<>>,
                                        IF made.error = "" THEN 2 ELSE 0))
    /\ UNCHANGED rd_data

\* reader.extract(length), length negative for a tail
RDExtract ==
    /\ Followed
    /\ \E r \in 1..Len(readers),
          length \in Optional((-(MaxData + 1))..(MaxData + 1)) :
          LET made == extract(readers[r], Len(rd_data), length)
          IN  /\ readers' = Keep(r, made.parent, made)
              /\ Recorded(ReaderCall("extract", r, length, NoVal, 0, NoVal,
                                     made.error, <<>>,
                                     IF made.error = "" THEN 2 ELSE 0))
    /\ UNCHANGED rd_data

\* reader.read_bytes(length)
RDReadBytes ==
    /\ Followed
    /\ \E r \in 1..Len(readers), length \in Sizes :
          LET read == read_bytes(readers[r], rd_data, length)
          IN  /\ readers' = [readers EXCEPT ![r] = read.reader]
              /\ Recorded(ReaderCall("read_bytes", r, Some(length), NoVal, 0,
                                     NoVal, read.error, read.bytes, 0))
    /\ UNCHANGED rd_data

\* reader.read_bytes_at(offset, length)
RDReadBytesAt ==
    /\ Followed
    /\ \E r \in 1..Len(readers), offset \in Sizes, length \in Sizes :
          LET read == read_bytes_at(readers[r], rd_data, offset, length)
          IN  /\ readers' = [readers EXCEPT ![r] = read.reader]
              /\ Recorded(ReaderCall("read_bytes_at", r, Some(length),
                                     Some(offset), 0, NoVal, read.error,
                                     read.bytes, 0))
    /\ UNCHANGED rd_data

\* reader.read_uint8(), read_uint16(), read_uint32(), read_uint64(): the
\* call returns FromBytesLittle of the bytes recorded
RDReadUint ==
    /\ Followed
    /\ \E r \in 1..Len(readers), size \in UintSizes :
          LET read == read_bytes(readers[r], rd_data, size)
          IN  /\ readers' = [readers EXCEPT ![r] = read.reader]
              /\ Recorded(ReaderCall("read_uint", r, Some(size), NoVal, 0,
                                     NoVal, read.error, read.bytes, 0))
    /\ UNCHANGED rd_data

\* reader.skip(skip_bytes)
RDSkip ==
    /\ Followed
    /\ \E r \in 1..Len(readers), skip_bytes \in Sizes :
          LET skipped == skip(readers[r], skip_bytes)
          IN  /\ readers' = [readers EXCEPT ![r] = skipped.reader]
              /\ Recorded(ReaderCall("skip", r, Some(skip_bytes), NoVal, 0,
                                     NoVal, skipped.error, <<>>, 0))
    /\ UNCHANGED rd_data

\* The file is read whole and one reader is made over it
InitRD ==
    /\ rd_data \in FileImages
    /\ readers = <<onestore_reader(Len(rd_data), NoVal, 0).reader>>
    /\ rd_last = NoReaderCall

RDIdle ==
    /\ rd_data = <<>>
    /\ readers = <<>>
    /\ rd_last = NoReaderCall

-----------------------------------------------------------------------------
(* json_tree_builder.py: JsonTreeBuilder.BuildJsonTree *)

\* str(x)
StrOf(x) == <<"str", x>>

\* The revisions of an object space: self.revisions as the list of its rids
\* in dictionary order, and the rid of self.root_revision_ctx (NoVal: the
\* default context names no revision of the space)
DistinctSeqs(S) ==
    { q \in UNION { [1..k -> S] : k \in 0..Cardinality(S) } :
        \A i, j \in 1..Len(q) : i < j => q[i] # q[j] }

JsonObjectSpaceBuilderCtx ==
    { space \in [revisions : DistinctSeqs(Rids),
                 root_revision_ctx : Optional(Rids)] :
        space.root_revision_ctx = NoVal \/
        \E i \in 1..Len(space.revisions) :
            Some(space.revisions[i]) = space.root_revision_ctx }

\* The methods of JsonObjectSpaceBuilderCtx and of its base class
\* ObjectSpaceBuilderCtx
ObjectSpaceMethods ==
    {"MakeRootJsonTree", "MakeAllRevisionsJsonTree",
     "__init__", "GetVersionByTimestamp", "GetVersionTimestamps",
     "GetRevisions", "GetRootRevision", "dump"}

\* revision_ctx.MakeJsonTree(): the tree of the revision's roles
MakeJsonTree(rid) == [revision |-> rid, root_revision |-> FALSE]

\* 'for revision_ctx in reversed(self.GetRevisions())' of
\* MakeAllRevisionsJsonTree, from the last revision to the first
RECURSIVE RevisionsDict(_, _)
RevisionsDict(space, done) ==
    IF done = Len(space.revisions) THEN NoEntries
    ELSE LET rid == space.revisions[done + 1]
             root_tree == MakeJsonTree(rid)
         IN  WithEntry(RevisionsDict(space, done + 1), StrOf(rid),
                       IF Some(rid) = space.root_revision_ctx
                       THEN [root_tree EXCEPT !.root_revision = TRUE]
                       ELSE root_tree)

\* object_space_ctx.MakeAllRevisionsJsonTree()
MakeAllRevisionsJsonTree(space) ==
    [type |-> "page", revisions |-> RevisionsDict(space, 0)]

\* The keys of self.object_spaces in dictionary order
GosidOrder == [i \in 1..Cardinality(DOMAIN js_object_spaces) |-> i]

\* The pages a loop over 'todo' adds to 'pages'
RECURSIVE AllRevisionsPages(_, _)
AllRevisionsPages(todo, pages) ==
    IF todo = <<>> THEN pages
    ELSE AllRevisionsPages(Tail(todo),
            IF Head(todo) = js_root_gosid THEN pages
            ELSE WithEntry(pages, StrOf(Head(todo)),
                    MakeAllRevisionsJsonTree(js_object_spaces[Head(todo)])))

JsonRaised(exception) == [error |-> exception, tree |-> NoVal]

\* self.BuildAllRevisionsJsonTree(root_tree_name)
BuildAllRevisionsJsonTree(root_tree_name) ==
    IF js_root_gosid \notin DOMAIN js_object_spaces THEN JsonRaised("KeyError")
    ELSE IF "MakeJsonTree" \notin ObjectSpaceMethods
    THEN JsonRaised("AttributeError")
    ELSE [error |-> "",
          tree |-> Some([type |-> root_tree_name,
                         pageIndex |-> Some(js_root_gosid),
                         pages |-> AllRevisionsPages(GosidOrder, NoEntries)])]

\* self.BuildJsonTree(root_tree_name, options) up to its loop; the call with
\* options.timestamp is not followed
BuildJsonTree ==
    /\ js_pc = "call"
    /\ IF js_options.all_revisions
       THEN LET built == BuildAllRevisionsJsonTree("notebook")
            IN  /\ js_pc' = IF built.error = "" THEN "done" ELSE built.error
                /\ js_tree' = built.tree
                /\ UNCHANGED js_todo
       ELSE /\ js_pc' = "pages"
            /\ js_tree' = Some([type |-> "notebook", pageIndex |-> NoVal,
                                pages |-> NoEntries])
            /\ js_todo' = GosidOrder
    /\ UNCHANGED <<js_object_spaces, js_root_gosid, js_options>>

\* One iteration of 'for gosid, object_space_ctx in self.object_spaces.items()'
\* of BuildJsonTree: pages[str(gosid)] = object_space_ctx.MakeRootJsonTree()
BuildJsonTreePage ==
    /\ js_pc = "pages"
    /\ js_todo # <<>>
    /\ LET gosid == Head(js_todo)
           space == js_object_spaces[gosid]
       IN  IF gosid = js_root_gosid
           THEN UNCHANGED <<js_pc, js_tree>>
           ELSE IF space.root_revision_ctx = NoVal
           THEN js_pc' = "AttributeError" /\ UNCHANGED js_tree
           ELSE /\ js_tree' =
                      Some([js_tree[1] EXCEPT !.pages =
                              WithEntry(@, StrOf(gosid),
                                        MakeJsonTree(space.root_revision_ctx[1]))])
                /\ UNCHANGED js_pc
    /\ js_todo' = Tail(js_todo)
    /\ UNCHANGED <<js_object_spaces, js_root_gosid, js_options>>

\* 'return root_dict' of BuildJsonTree
BuildJsonTreeReturn ==
    /\ js_pc = "pages"
    /\ js_todo = <<>>
    /\ js_pc' = "done"
    /\ UNCHANGED <<js_object_spaces, js_root_gosid, js_options, js_todo,
                   js_tree>>

\* A file of up to MaxSpaces object spaces, one of them the root one
InitJson ==
    /\ \E n \in 1..MaxSpaces :
          /\ js_object_spaces \in [1..n -> JsonObjectSpaceBuilderCtx]
          /\ js_root_gosid \in 1..n
    /\ js_options \in [all_revisions : BOOLEAN]
    /\ js_pc = "call"
    /\ js_todo = <<>>
    /\ js_tree = NoVal

JSIdle ==
    /\ js_object_spaces = <<>>
    /\ js_root_gosid = 0
    /\ js_options = [all_revisions |-> FALSE]
    /\ js_pc = "idle"
    /\ js_todo = <<>>
    /\ js_tree = NoVal

-----------------------------------------------------------------------------
(* 1note2json.py main, object_tree_builder.py MakeVersionFiles: file handles *)

\* A call that decodes or writes returns or raises
Outcomes == {"returns", "raises"}

\* The exception leaves main: the handlers of lines 95-105 end the process
FHRaise ==
    /\ fh_pc' = "exit_error"
    /\ UNCHANGED <<fh_options, fh_left, fh_pages>>

\* main: 'if options.log: log_file = open(options.log, ...)'
MainOpenLog ==
    /\ fh_pc = "start"
    /\ fh_open' = IF fh_options.log THEN fh_open \cup {"log"} ELSE fh_open
    /\ fh_pc' = "open"
    /\ UNCHANGED <<fh_options, fh_left, fh_pages>>

\* main: onenote = OneNote.open(options.onefile, options, log_file)
MainOpen ==
    /\ fh_pc = "open"
    /\ \E outcome \in Outcomes :
          IF outcome = "raises" THEN FHRaise
          ELSE /\ fh_pc' = "output_dir"
               /\ UNCHANGED <<fh_options, fh_left, fh_pages>>
    /\ UNCHANGED fh_open

\* main: 'if options.output_dir: onenote.MakeJsonRevisions(...)', which is
\* MakeVersionFiles up to its loop
MakeVersionFiles ==
    /\ fh_pc = "output_dir"
    /\ IF ~fh_options.output_dir
       THEN /\ fh_pc' = "dump"
            /\ UNCHANGED <<fh_open, fh_left, fh_pages>>
       ELSE \E outcome \in Outcomes, count \in 0..MaxVersions,
               pages \in 0..MaxPages :
               IF outcome = "raises"
               THEN \* GetVersions raises
                    /\ fh_pc' = "exit_error"
                    /\ fh_open' = IF fh_options.all_revisions
                                  THEN fh_open \cup {"versions.txt"}
                                  ELSE fh_open
                    /\ UNCHANGED <<fh_left, fh_pages>>
               ELSE IF ~fh_options.all_revisions
               THEN \* self._WriteVersionFiles(self.GetVersions()[-1], ...)
                    /\ fh_pc' = "items"
                    /\ fh_left' = 1
                    /\ fh_pages' = pages
                    /\ UNCHANGED fh_open
               ELSE /\ fh_open' = fh_open \cup {"versions.txt"}
                    /\ fh_pc' = "versions"
                    /\ fh_left' = count
                    /\ UNCHANGED fh_pages
    /\ UNCHANGED fh_options

\* MakeVersionFiles: the next version of the loop, or the end of the loop,
\* the [versions] section and versions_file.close()
MakeVersionFilesNext ==
    /\ fh_pc = "versions"
    /\ IF fh_left > 0
       THEN \E pages \in 0..MaxPages :
               /\ fh_pc' = "items"
               /\ fh_pages' = pages
               /\ UNCHANGED <<fh_open, fh_left>>
       ELSE \E outcome \in Outcomes :
               IF outcome = "raises"
               THEN /\ fh_pc' = "exit_error"
                    /\ UNCHANGED <<fh_open, fh_left, fh_pages>>
               ELSE /\ fh_open' = fh_open \ {"versions.txt"}
                    /\ fh_pc' = "dump"
                    /\ UNCHANGED <<fh_left, fh_pages>>
    /\ UNCHANGED fh_options

\* _WriteVersionFiles: item_ctx.MakeFile(directory, guid) opens the page file
\* in a 'with'; after the last item index.txt is opened in a 'with'
WriteVersionFilesOpen ==
    /\ fh_pc = "items"
    /\ IF fh_pages > 0
       THEN /\ fh_open' = fh_open \cup {"page.json"}
            /\ fh_pc' = "page_body"
       ELSE /\ fh_open' = fh_open \cup {"index.txt"}
            /\ fh_pc' = "index_body"
    /\ UNCHANGED <<fh_options, fh_left, fh_pages>>

\* The body of a 'with open(...)': the file is closed when the body returns
\* and when it raises
WithBody ==
    /\ fh_pc \in {"page_body", "index_body"}
    /\ fh_open' = fh_open \ {"page.json", "index.txt"}
    /\ \E outcome \in Outcomes :
          IF outcome = "raises" THEN FHRaise
          ELSE IF fh_pc = "page_body"
          THEN /\ fh_pc' = "items"
               /\ fh_pages' = fh_pages - 1
               /\ UNCHANGED <<fh_options, fh_left>>
          ELSE /\ fh_pc' = IF fh_options.all_revisions THEN "version_end"
                           ELSE "dump"
               /\ UNCHANGED <<fh_options, fh_left, fh_pages>>

\* MakeVersionFiles: the lines of one version are printed to versions_file
MakeVersionFilesPrint ==
    /\ fh_pc = "version_end"
    /\ \E outcome \in Outcomes :
          IF outcome = "raises" THEN FHRaise
          ELSE /\ fh_pc' = "versions"
               /\ fh_left' = fh_left - 1
               /\ UNCHANGED <<fh_options, fh_pages>>
    /\ UNCHANGED fh_open

\* main: 'if log_file is not None: onenote.dump(log_file, ...);
\* log_file.close()', 'return 0'
MainCloseLog ==
    /\ fh_pc = "dump"
    /\ IF "log" \notin fh_open
       THEN fh_pc' = "exit" /\ UNCHANGED fh_open
       ELSE \E outcome \in Outcomes :
               IF outcome = "raises"
               THEN fh_pc' = "exit_error" /\ UNCHANGED fh_open
               ELSE fh_pc' = "exit" /\ fh_open' = fh_open \ {"log"}
    /\ UNCHANGED <<fh_options, fh_left, fh_pages>>

InitFH ==
    /\ fh_options \in [log : BOOLEAN, output_dir : BOOLEAN,
                       all_revisions : BOOLEAN]
    /\ fh_pc = "start"
    /\ fh_open = {}
    /\ fh_left = 0
    /\ fh_pages = 0

FHIdle ==
    /\ fh_options = [log |-> FALSE, output_dir |-> FALSE,
                     all_revisions |-> FALSE]
    /\ fh_pc = "idle"
    /\ fh_open = {}
    /\ fh_left = 0
    /\ fh_pages = 0

-----------------------------------------------------------------------------
(* object_tree_builder.py: RevisionBuilderCtx.__init__, the timestamp *)

RootRoles ==
    {ROOT_ROLE_CONTENTS, ROOT_ROLE_PAGE_METADATA, ROOT_ROLE_REVISION_METADATA}

\* The root objects of the roles; a property is NoVal when the object has not
\* got it. TopologyCreationTimeStamps is the TopologyCreationTimeStamp of the
\* first of GetTopologyCreationTimeStamps(root_obj), NoVal when there is none.
RevisionMetadataRoots == [LastModifiedTimeStamp : Optional({10})]
PageMetadataRoots ==
    [ConflictingUserName : Optional({"", "author"}),
     TopologyCreationTimeStamp : Optional({20})]
ContentsRoots ==
    [jcid_name : {"jcidSectionNode", "jcidPageNode"},
     TopologyCreationTimeStamps : Optional({30})]

\* getattr(root_obj, name, default) for a property held as NoVal or Some(x)
GetAttr(property, default) == IF property = NoVal THEN default ELSE property

\* 'if x:' for x None or a string
Truthy(x) == x # NoVal /\ x # Some("")

\* 'self.conflict_author' as a condition
HasConflictAuthor(ctx) == Truthy(ctx.conflict_author)

NoTimestampCtx == [last_modified_timestamp |-> NoVal, conflict_author |-> NoVal]

\* One iteration of 'for role in self.revision.GetRootObjectRoles()', as far
\* as the timestamp goes
RoleStep(ctx, role, root_objects) ==
    LET root_obj == root_objects[role]
    IN  IF role = ROOT_ROLE_REVISION_METADATA
        THEN IF ~HasConflictAuthor(ctx)
             THEN [ctx EXCEPT !.last_modified_timestamp =
                        GetAttr(root_obj.LastModifiedTimeStamp, @)]
             ELSE ctx
        ELSE IF role = ROOT_ROLE_PAGE_METADATA
        THEN LET author == root_obj.ConflictingUserName
             IN  [conflict_author |-> author,
                  last_modified_timestamp |->
                      IF Truthy(author)
                      THEN GetAttr(root_obj.TopologyCreationTimeStamp,
                                   ctx.last_modified_timestamp)
                      ELSE ctx.last_modified_timestamp]
        ELSE IF /\ role = ROOT_ROLE_CONTENTS
                /\ root_obj.jcid_name = "jcidSectionNode"
                /\ ctx.last_modified_timestamp = NoVal
        THEN [ctx EXCEPT !.last_modified_timestamp =
                    root_obj.TopologyCreationTimeStamps]
        ELSE ctx

\* The loop over the roles 'roles', from the context 'ctx'
RECURSIVE BuildRoles(_, _, _)
BuildRoles(ctx, roles, root_objects) ==
    IF roles = <<>> THEN ctx
    ELSE BuildRoles(RoleStep(ctx, Head(roles), root_objects), Tail(roles),
                    root_objects)

\* One iteration of the loop
BuildRoleTimestamp ==
    /\ ts_pc = "roles"
    /\ ts_roles # <<>>
    /\ ts_ctx' = RoleStep(ts_ctx, Head(ts_roles), ts_root_objects)
    /\ ts_roles' = Tail(ts_roles)
    /\ ts_done' = Append(ts_done, Head(ts_roles))
    /\ UNCHANGED <<ts_root_objects, ts_pc>>

\* The loop ends and __init__ returns
BuildRolesReturn ==
    /\ ts_pc = "roles"
    /\ ts_roles = <<>>
    /\ ts_pc' = "done"
    /\ UNCHANGED <<ts_root_objects, ts_roles, ts_done, ts_ctx>>

\* A revision with any roles, declared in any order
InitTS ==
    /\ \E rm \in RevisionMetadataRoots, pm \in PageMetadataRoots,
          contents \in ContentsRoots :
          ts_root_objects = (ROOT_ROLE_REVISION_METADATA :> rm) @@
                            (ROOT_ROLE_PAGE_METADATA :> pm) @@
                            (ROOT_ROLE_CONTENTS :> contents)
    /\ ts_roles \in DistinctSeqs(RootRoles)
    /\ ts_done = <<>>
    /\ ts_ctx = NoTimestampCtx
    /\ ts_pc = "roles"

TSIdle ==
    /\ ts_root_objects = <<>>
    /\ ts_roles = <<>>
    /\ ts_done = <<>>
    /\ ts_ctx = NoTimestampCtx
    /\ ts_pc = "idle"

-----------------------------------------------------------------------------
(* object_tree_builder.py: GetVersions, the grouping by guid *)

\* The revisions chosen for one timestamp, one of each object space, in the
\* order of the object spaces; pick[i] is the timestamp, the guid and the hash
\* of the revision of object space i
ChosenList(pick) ==
    [i \in DOMAIN pick |->
        RevisionCtx(i, 1, pick[i][1], None, pick[i][2], pick[i][3])]

\* revision_ctx_list.sort(key=lambda rev: rev.last_modified_timestamp);
\* version_tree = {}
GroupSort ==
    /\ gb_pc = "sort"
    /\ gb_list' = SortedByTimestamp(gb_list)
    /\ gb_pc' = "loop"
    /\ UNCHANGED <<gb_entered, gb_version_tree, gb_before>>

\* One iteration of 'for revision_ctx in revision_ctx_list'
GroupEnter ==
    /\ gb_pc = "loop"
    /\ gb_list # <<>>
    /\ gb_version_tree' = EnterRevision(gb_version_tree, Head(gb_list))
    /\ gb_before' = gb_version_tree
    /\ gb_entered' = Append(gb_entered, Head(gb_list))
    /\ gb_list' = Tail(gb_list)
    /\ UNCHANGED gb_pc

\* The loop ends
GroupEnd ==
    /\ gb_pc = "loop"
    /\ gb_list = <<>>
    /\ gb_pc' = "done"
    /\ UNCHANGED <<gb_list, gb_entered, gb_version_tree, gb_before>>

InitGB ==
    /\ \E n \in 0..MaxChosen :
          \E pick \in [1..n -> (1..MaxTick) \X Guids \X Hashes] :
             gb_list = ChosenList(pick)
    /\ gb_entered = <<>>
    /\ gb_version_tree = EmptyDict
    /\ gb_before = EmptyDict
    /\ gb_pc = "sort"

\* A page with more conflicting copies than there are extension buckets: the
\* copies of one timestamp, each of an object space of its own and each with
\* a hash of its own, the first of them entered under the guid
ManyCopies(count) ==
    [i \in 1..count |-> RevisionCtx(i, 1, 2, None, "g1", <<"copy", i>>)]
\* The counts of copies around the end of range(1, 100): the entry and 98, 99,
\* 100 or 101 further copies
CopyCounts == (ExtRangeEnd - 1)..(ExtRangeEnd + 2)
\* What else is chosen with the copies: nothing, a copy with the hash of the
\* first copy, or a later revision of the page
CopyCompanions(count) ==
    { <<>>,
      << RevisionCtx(count + 1, 1, 2, None, "g1", <<"copy", 1>>) >>,
      << RevisionCtx(count + 1, 1, 3, None, "g1", <<"copy", 1>>) >> }

\* The same loop over the copies of one page; the companion stands first in
\* the list as chosen
InitCopies ==
    /\ \E count \in CopyCounts :
          \E companion \in CopyCompanions(count) :
             gb_list = companion \o ManyCopies(count)
    /\ gb_entered = <<>>
    /\ gb_version_tree = EmptyDict
    /\ gb_before = EmptyDict
    /\ gb_pc = "sort"

MVIdle ==
    /\ mv_versions = <<>>
    /\ mv_titles = <<>>
    /\ mv_timestamp = NoVal
    /\ mv_version = NoVal
    /\ mv_output = NoVal
    /\ mv_left = <<>>
    /\ mv_prev_directory = EmptyDict
    /\ mv_title = NoVal
    /\ mv_written = <<>>
    /\ mv_pc = "idle"

GBIdle ==
    /\ gb_list = <<>>
    /\ gb_entered = <<>>
    /\ gb_version_tree = EmptyDict
    /\ gb_before = EmptyDict
    /\ gb_pc = "idle"

-----------------------------------------------------------------------------
(* Specifications *)

InitBS ==
    /\ BSCall
    /\ OSIdle
    /\ GVIdle
    /\ ObjIdle
    /\ RMLIdle
    /\ RDIdle
    /\ JSIdle
    /\ FHIdle
    /\ TSIdle
    /\ GBIdle
    /\ MVIdle

NextBS ==
    \/ FindStep /\ UNCHANGED <<osVars, gvVars, objVars, rmlVars, rdVars, jsVars, fhVars, tsVars, gbVars, mvVars>>
    \/ LowerBoundStep /\ UNCHANGED <<osVars, gvVars, objVars, rmlVars, rdVars, jsVars, fhVars, tsVars, gbVars, mvVars>>
    \/ UpperBoundStep /\ UNCHANGED <<osVars, gvVars, objVars, rmlVars, rdVars, jsVars, fhVars, tsVars, gbVars, mvVars>>

SpecBS == InitBS /\ [][NextBS]_vars

InitBSAny ==
    /\ BSCallAny
    /\ OSIdle
    /\ GVIdle
    /\ ObjIdle
    /\ RMLIdle
    /\ RDIdle
    /\ JSIdle
    /\ FHIdle
    /\ TSIdle
    /\ GBIdle
    /\ MVIdle

\* A call runs on until it returns
SpecBSAny == InitBSAny /\ [][NextBS]_vars /\ WF_vars(NextBS)

InitOS ==
    /\ BSIdle
    /\ \E input \in RevisionInputs : os_versions = BuildVersions(WithRid(input))
    /\ os_query = NoQuery
    /\ os_result = NoVal
    /\ GVIdle
    /\ ObjIdle
    /\ RMLIdle
    /\ RDIdle
    /\ JSIdle
    /\ FHIdle
    /\ TSIdle
    /\ GBIdle
    /\ MVIdle

NextOS ==
    \/ OSCall /\ UNCHANGED <<bsVars, gvVars, objVars, rmlVars, rdVars, jsVars, fhVars, tsVars, gbVars, mvVars>>

SpecOS == InitOS /\ [][NextOS]_vars

Init ==
    /\ BSIdle
    /\ OSIdle
    /\ InitGV
    /\ ObjIdle
    /\ RMLIdle
    /\ RDIdle
    /\ JSIdle
    /\ FHIdle
    /\ TSIdle
    /\ GBIdle
    /\ MVIdle

Next ==
    \/ GetVersionsBegin /\ UNCHANGED <<bsVars, osVars, objVars, rmlVars, rdVars, jsVars, fhVars, tsVars, gbVars, mvVars>>
    \/ GetVersionsStep /\ UNCHANGED <<bsVars, osVars, objVars, rmlVars, rdVars, jsVars, fhVars, tsVars, gbVars, mvVars>>
    \/ GetVersionsEnd /\ UNCHANGED <<bsVars, osVars, objVars, rmlVars, rdVars, jsVars, fhVars, tsVars, gbVars, mvVars>>

Spec == Init /\ [][Next]_vars

InitObjSpec ==
    /\ BSIdle
    /\ OSIdle
    /\ GVIdle
    /\ InitObj
    /\ RMLIdle
    /\ RDIdle
    /\ JSIdle
    /\ FHIdle
    /\ TSIdle
    /\ GBIdle
    /\ MVIdle

NextObj ==
    \/ BuildRole /\ UNCHANGED <<bsVars, osVars, gvVars, rmlVars, rdVars, jsVars, fhVars, tsVars, gbVars, mvVars>>
    \/ WalkReference /\ UNCHANGED <<bsVars, osVars, gvVars, rmlVars, rdVars, jsVars, fhVars, tsVars, gbVars, mvVars>>
    \/ FinishObject /\ UNCHANGED <<bsVars, osVars, gvVars, rmlVars, rdVars, jsVars, fhVars, tsVars, gbVars, mvVars>>
    \/ EndRoles /\ UNCHANGED <<bsVars, osVars, gvVars, rmlVars, rdVars, jsVars, fhVars, tsVars, gbVars, mvVars>>

\* The builder is single-threaded and runs to completion: a step that can be
\* taken is taken
SpecObj == InitObjSpec /\ [][NextObj]_vars /\ WF_vars(NextObj)

InitRMLSpec ==
    /\ BSIdle
    /\ OSIdle
    /\ GVIdle
    /\ ObjIdle
    /\ InitRML
    /\ RDIdle
    /\ JSIdle
    /\ FHIdle
    /\ TSIdle
    /\ GBIdle
    /\ MVIdle

NextRML ==
    \/ RevisionManifestListStart /\ UNCHANGED <<bsVars, osVars, gvVars, objVars, rdVars, jsVars, fhVars, tsVars, gbVars, mvVars>>
    \/ RevisionManifestListNext /\ UNCHANGED <<bsVars, osVars, gvVars, objVars, rdVars, jsVars, fhVars, tsVars, gbVars, mvVars>>
    \/ RevisionManifestLoop1 /\ UNCHANGED <<bsVars, osVars, gvVars, objVars, rdVars, jsVars, fhVars, tsVars, gbVars, mvVars>>
    \/ RevisionManifestLoop2 /\ UNCHANGED <<bsVars, osVars, gvVars, objVars, rdVars, jsVars, fhVars, tsVars, gbVars, mvVars>>

SpecRML == InitRMLSpec /\ [][NextRML]_vars

InitRDSpec ==
    /\ BSIdle
    /\ OSIdle
    /\ GVIdle
    /\ ObjIdle
    /\ RMLIdle
    /\ InitRD
    /\ JSIdle
    /\ FHIdle
    /\ TSIdle
    /\ GBIdle
    /\ MVIdle

NextRD ==
    \/ RDClone /\ UNCHANGED <<bsVars, osVars, gvVars, objVars, rmlVars, jsVars, fhVars, tsVars, gbVars, mvVars>>
    \/ RDExtract /\ UNCHANGED <<bsVars, osVars, gvVars, objVars, rmlVars, jsVars, fhVars, tsVars, gbVars, mvVars>>
    \/ RDReadBytes /\ UNCHANGED <<bsVars, osVars, gvVars, objVars, rmlVars, jsVars, fhVars, tsVars, gbVars, mvVars>>
    \/ RDReadBytesAt /\ UNCHANGED <<bsVars, osVars, gvVars, objVars, rmlVars, jsVars, fhVars, tsVars, gbVars, mvVars>>
    \/ RDReadUint /\ UNCHANGED <<bsVars, osVars, gvVars, objVars, rmlVars, jsVars, fhVars, tsVars, gbVars, mvVars>>
    \/ RDSkip /\ UNCHANGED <<bsVars, osVars, gvVars, objVars, rmlVars, jsVars, fhVars, tsVars, gbVars, mvVars>>

SpecRD == InitRDSpec /\ [][NextRD]_vars

InitJsonSpec ==
    /\ BSIdle
    /\ OSIdle
    /\ GVIdle
    /\ ObjIdle
    /\ RMLIdle
    /\ RDIdle
    /\ InitJson
    /\ FHIdle
    /\ TSIdle
    /\ GBIdle
    /\ MVIdle

NextJson ==
    \/ BuildJsonTree /\ UNCHANGED <<bsVars, osVars, gvVars, objVars, rmlVars, rdVars, fhVars, tsVars, gbVars, mvVars>>
    \/ BuildJsonTreePage /\ UNCHANGED <<bsVars, osVars, gvVars, objVars, rmlVars, rdVars, fhVars, tsVars, gbVars, mvVars>>
    \/ BuildJsonTreeReturn /\ UNCHANGED <<bsVars, osVars, gvVars, objVars, rmlVars, rdVars, fhVars, tsVars, gbVars, mvVars>>

SpecJson == InitJsonSpec /\ [][NextJson]_vars

InitFHSpec ==
    /\ BSIdle
    /\ OSIdle
    /\ GVIdle
    /\ ObjIdle
    /\ RMLIdle
    /\ RDIdle
    /\ JSIdle
    /\ InitFH
    /\ TSIdle
    /\ GBIdle
    /\ MVIdle

NextFH ==
    \/ MainOpenLog /\ UNCHANGED <<bsVars, osVars, gvVars, objVars, rmlVars, rdVars, jsVars, tsVars, gbVars, mvVars>>
    \/ MainOpen /\ UNCHANGED <<bsVars, osVars, gvVars, objVars, rmlVars, rdVars, jsVars, tsVars, gbVars, mvVars>>
    \/ MakeVersionFiles /\ UNCHANGED <<bsVars, osVars, gvVars, objVars, rmlVars, rdVars, jsVars, tsVars, gbVars, mvVars>>
    \/ MakeVersionFilesNext /\ UNCHANGED <<bsVars, osVars, gvVars, objVars, rmlVars, rdVars, jsVars, tsVars, gbVars, mvVars>>
    \/ WriteVersionFilesOpen /\ UNCHANGED <<bsVars, osVars, gvVars, objVars, rmlVars, rdVars, jsVars, tsVars, gbVars, mvVars>>
    \/ WithBody /\ UNCHANGED <<bsVars, osVars, gvVars, objVars, rmlVars, rdVars, jsVars, tsVars, gbVars, mvVars>>
    \/ MakeVersionFilesPrint /\ UNCHANGED <<bsVars, osVars, gvVars, objVars, rmlVars, rdVars, jsVars, tsVars, gbVars, mvVars>>
    \/ MainCloseLog /\ UNCHANGED <<bsVars, osVars, gvVars, objVars, rmlVars, rdVars, jsVars, tsVars, gbVars, mvVars>>

SpecFH == InitFHSpec /\ [][NextFH]_vars

InitTSSpec ==
    /\ BSIdle
    /\ OSIdle
    /\ GVIdle
    /\ ObjIdle
    /\ RMLIdle
    /\ RDIdle
    /\ JSIdle
    /\ FHIdle
    /\ InitTS
    /\ GBIdle
    /\ MVIdle

NextTS ==
    \/ BuildRoleTimestamp /\ UNCHANGED <<bsVars, osVars, gvVars, objVars, rmlVars, rdVars, jsVars, fhVars, gbVars, mvVars>>
    \/ BuildRolesReturn /\ UNCHANGED <<bsVars, osVars, gvVars, objVars, rmlVars, rdVars, jsVars, fhVars, gbVars, mvVars>>

SpecTS == InitTSSpec /\ [][NextTS]_vars

InitGBSpec ==
    /\ BSIdle
    /\ OSIdle
    /\ GVIdle
    /\ ObjIdle
    /\ RMLIdle
    /\ RDIdle
    /\ JSIdle
    /\ FHIdle
    /\ TSIdle
    /\ InitGB
    /\ MVIdle

NextGB ==
    \/ GroupSort /\ UNCHANGED <<bsVars, osVars, gvVars, objVars, rmlVars, rdVars, jsVars, fhVars, tsVars, mvVars>>
    \/ GroupEnter /\ UNCHANGED <<bsVars, osVars, gvVars, objVars, rmlVars, rdVars, jsVars, fhVars, tsVars, mvVars>>
    \/ GroupEnd /\ UNCHANGED <<bsVars, osVars, gvVars, objVars, rmlVars, rdVars, jsVars, fhVars, tsVars, mvVars>>

SpecGB == InitGBSpec /\ [][NextGB]_vars

InitCopiesSpec ==
    /\ BSIdle
    /\ OSIdle
    /\ GVIdle
    /\ ObjIdle
    /\ RMLIdle
    /\ RDIdle
    /\ JSIdle
    /\ FHIdle
    /\ TSIdle
    /\ InitCopies
    /\ MVIdle

SpecCopies == InitCopiesSpec /\ [][NextGB]_vars

-----------------------------------------------------------------------------
(* Claims about the per-object-space version lookup (SpecOS) *)

OSIsVersion(r) == \E i \in 1..Len(os_versions) : os_versions[i] = r[1]

\* C1: on the version list of an object space (non-encrypted versions in
\* ascending last_modified_timestamp order), GetVersionByTimestamp(t,
\* upper_bound=True) returns a version v with v.timestamp <= t such that no
\* version has a timestamp in (v.timestamp, t], or None when every version is
\* later than t; lower_bound=True is the dual; with neither flag the result is a
\* version whose timestamp equals t, or None when there is none.
C1_VersionByTimestamp ==
    /\ \A i \in 1..Len(os_versions) : ~os_versions[i].is_encrypted
    /\ \A i \in 1..(Len(os_versions) - 1) :
          os_versions[i].last_modified_timestamp <= os_versions[i + 1].last_modified_timestamp
    /\ os_query.asked =>
         LET t == os_query.timestamp
             all == VersionTimestamps(os_versions)
             r == os_result
         IN  IF os_query.upper_bound
             THEN IF r = NoVal
                  THEN \A ts \in all : ts > t
                  ELSE /\ OSIsVersion(r)
                       /\ r[1].last_modified_timestamp <= t
                       /\ ~\E ts \in all : r[1].last_modified_timestamp < ts /\ ts <= t
             ELSE IF os_query.lower_bound
             THEN IF r = NoVal
                  THEN \A ts \in all : ts < t
                  ELSE /\ OSIsVersion(r)
                       /\ r[1].last_modified_timestamp >= t
                       /\ ~\E ts \in all : t <= ts /\ ts < r[1].last_modified_timestamp
             ELSE IF r = NoVal
                  THEN t \notin all
                  ELSE OSIsVersion(r) /\ r[1].last_modified_timestamp = t

\* C1 witness: an upper-bound lookup that answers a version in the middle of the
\* list: an earlier version precedes it and a later one is past the timestamp
C1_Witness ==
    /\ os_query.asked /\ os_query.upper_bound
    /\ os_result # NoVal
    /\ \E i, j \in 1..Len(os_versions) :
          /\ os_versions[i].last_modified_timestamp < os_result[1].last_modified_timestamp
          /\ os_versions[j].last_modified_timestamp > os_query.timestamp

-----------------------------------------------------------------------------
(* Claims about binary_search.py (SpecBS) *)

\* The 0-based index of the first item >= t: the number of items < t
FirstAtLeast(a, t) == Cardinality({ i \in 1..Len(a) : a[i] < t })
\* The 0-based index of the last item <= t (-1 when there is none)
LastAtMost(a, t) == Cardinality({ i \in 1..Len(a) : a[i] <= t }) - 1

\* C9: LowerBound(array, target) on an array sorted in ascending order (equal
\* neighbours allowed) returns (item, pos) with pos the index of the first item
\* >= target and array[pos] == item, or (None, len(array)) when no item is >= target.
C9_LowerBoundIsFirstAtLeast ==
    (bs_fn = "LowerBound" /\ bs_pc = "done") =>
        LET p == FirstAtLeast(array, target)
        IN  /\ bs_ret.pos = Some(p)
            /\ bs_ret.item = (IF p = Len(array) THEN NoVal ELSE Some(At(array, p)))

\* C10: UpperBound(array, target) on an array sorted in ascending order (equal
\* neighbours allowed) returns (item, pos) with pos the index of the last item
\* <= target and array[pos] == item, or (None, -1) when no item is <= target.
C10_UpperBoundIsLastAtMost ==
    (bs_fn = "UpperBound" /\ bs_pc = "done") =>
        LET p == LastAtMost(array, target)
        IN  /\ bs_ret.pos = Some(p)
            /\ bs_ret.item = (IF p = -1 THEN NoVal ELSE Some(At(array, p)))

\* C11: Find(array, target) on an array sorted in ascending order returns
\* (item, pos) with array[pos] == item == target whenever target occurs in the
\* array, and (None, None) exactly when target does not occur.
C11_FindExact ==
    (bs_fn = "Find" /\ bs_pc = "done") =>
        IF \E i \in 1..Len(array) : array[i] = target
        THEN /\ bs_ret.item = Some(target)
             /\ bs_ret.pos # NoVal
             /\ bs_ret.pos[1] \in 0..(Len(array) - 1)
             /\ At(array, bs_ret.pos[1]) = target
        ELSE bs_ret.item = NoVal /\ bs_ret.pos = NoVal

\* C11 witness: the target is the last item of a longest array of distinct
\* values, found after the search moved 'bottom' up
C11_Witness ==
    /\ bs_fn = "Find" /\ bs_pc = "done"
    /\ Len(array) = MaxLen
    /\ \A i \in 1..(Len(array) - 1) : array[i] < array[i + 1]
    /\ bs_ret.pos = Some(Len(array) - 1)
    /\ bottom > 0

\* A second state of C11: the target lies between two items and is reported
\* absent
C11_WitnessAbsent ==
    /\ bs_fn = "Find" /\ bs_pc = "done"
    /\ bs_ret.pos = NoVal
    /\ \E i \in 1..(Len(array) - 1) : array[i] < target /\ target < array[i + 1]

-----------------------------------------------------------------------------
(* Claims about GetVersions (Spec) *)

\* The last loop iteration had a candidate that was not skipped as identical
GVEmitted ==
    /\ gv_last.cand # NoVal
    /\ gv_last.cand[1].tree_list # gv_last.prev_list

\* The last candidate had a previously emitted version to be compared with
GVEmittedAfter == GVEmitted /\ gv_last.before # <<>>

GVCand == gv_last.cand[1]
GVPrev == Last(gv_last.before)

\* A new entry { directory, CreatedTimeStamp = LastModifiedTimeStamp = t, Author }
\* was appended for the last candidate, the earlier entries untouched
GVAppended ==
    /\ Len(versions) = Len(gv_last.before) + 1
    /\ SubSeq(versions, 1, Len(gv_last.before)) = gv_last.before
    /\ Last(versions) = [directory |-> GVCand.version_tree,
                         CreatedTimeStamp |-> GVCand.version_timestamp,
                         LastModifiedTimeStamp |-> GVCand.version_timestamp,
                         Author |-> GVCand.Author]

\* The last candidate was coalesced into the previous entry
GVCoalesced ==
    /\ Len(versions) = Len(gv_last.before)
    /\ SubSeq(versions, 1, Len(versions) - 1)
         = SubSeq(gv_last.before, 1, Len(versions) - 1)
    /\ Last(versions) = [directory |-> GVCand.version_tree,
                         CreatedTimeStamp |-> GVPrev.CreatedTimeStamp,
                         LastModifiedTimeStamp |-> GVCand.version_timestamp,
                         Author |-> GVPrev.Author]

GVSpanSinceCreated == GVCand.version_timestamp - GVPrev.CreatedTimeStamp

\* C6 (as claimed): whenever the author of the candidate is not equal to the
\* author of the previously emitted version (authors compared as values, an
\* absent author being a value), a new version entry is appended instead of
\* coalescing, whatever combine_revisions_time_span is.
C6_AnyAuthorChangeAppends ==
    (GVEmittedAfter /\ GVCand.Author # GVPrev.Author) => GVAppended

\* C6 (amended): whenever the candidate and the previously emitted version both
\* have an author and the two differ, a new version entry is appended instead
\* of coalescing, whatever combine_revisions_time_span is.
C6_AuthorChangeAppends ==
    (GVEmittedAfter /\ GVCand.Author # None /\ GVPrev.Author # None
        /\ GVCand.Author # GVPrev.Author) => GVAppended

\* C6 witness: two different authors inside the time span, and a new entry
C6_Witness ==
    /\ GVEmittedAfter
    /\ GVCand.Author # None /\ GVPrev.Author # None
    /\ GVCand.Author # GVPrev.Author
    /\ GVSpanSinceCreated < combine_revisions_time_span
    /\ Len(versions) = Len(gv_last.before) + 1

\* C7 (as claimed): with the same author and t - CreatedTimeStamp within the
\* span (not exceeding it) the candidate is coalesced into the previous
\* version (directory replaced, LastModifiedTimeStamp = t, CreatedTimeStamp and
\* Author unchanged); when the difference exceeds the span a new entry with
\* CreatedTimeStamp = LastModifiedTimeStamp = t is appended.
C7_CoalesceWithinSpan ==
    /\ (GVEmittedAfter /\ GVCand.Author = GVPrev.Author
           /\ GVSpanSinceCreated <= combine_revisions_time_span) => GVCoalesced
    /\ (GVEmittedAfter /\ GVSpanSinceCreated > combine_revisions_time_span)
           => GVAppended

\* C7 (amended): with the same author and t - CreatedTimeStamp strictly less
\* than the span the candidate is coalesced into the previous version
\* (directory replaced, LastModifiedTimeStamp = t, CreatedTimeStamp and Author
\* unchanged); when the difference reaches or exceeds the span a new entry with
\* CreatedTimeStamp = LastModifiedTimeStamp = t is appended.
C7_CoalesceBelowSpan ==
    /\ (GVEmittedAfter /\ GVCand.Author = GVPrev.Author
           /\ GVSpanSinceCreated < combine_revisions_time_span) => GVCoalesced
    /\ (GVEmittedAfter /\ GVSpanSinceCreated >= combine_revisions_time_span)
           => GVAppended

\* C7 witness: a candidate of the same author below the span was coalesced
\* into a version that now spans two different timestamps
C7_Witness ==
    /\ GVEmittedAfter
    /\ GVCand.Author = GVPrev.Author
    /\ GVSpanSinceCreated < combine_revisions_time_span
    /\ Len(versions) = Len(gv_last.before)
    /\ Last(versions).LastModifiedTimeStamp > Last(versions).CreatedTimeStamp
    /\ Last(versions).directory # GVPrev.directory

\* C7 second witness state: a same-author candidate exactly one span later
C7_WitnessAtSpan ==
    /\ GVEmittedAfter
    /\ GVCand.Author = GVPrev.Author
    /\ combine_revisions_time_span > 0
    /\ GVSpanSinceCreated = combine_revisions_time_span
    /\ Len(versions) = Len(gv_last.before) + 1

\* C8: a candidate whose content fingerprint equals the fingerprint of the most
\* recently emitted candidate is skipped: no version is appended and no field
\* of any existing version changes.
C8_IdenticalCandidateSkipped ==
    (gv_last.cand # NoVal /\ gv_last.cand[1].tree_list = gv_last.prev_list)
        => versions = gv_last.before

\* C8 witness: a later revision with the fingerprint of the last emitted
\* candidate came up, and the versions are as they were
C8_Witness ==
    /\ gv_last.cand # NoVal
    /\ gv_last.cand[1].tree_list = gv_last.prev_list
    /\ gv_last.before # <<>>
    /\ GVCand.version_timestamp > GVPrev.LastModifiedTimeStamp
    /\ versions = gv_last.before

-----------------------------------------------------------------------------
(* Claims about GetObjectReference (SpecObj) *)

\* The references of an object, as far as the revision has answered for it
ObjEdges(o) == { revision_objects[o].refs[i] : i \in 1..Len(revision_objects[o].refs) }

RECURSIVE ObjClosure(_)
ObjClosure(S) ==
    LET T == S \cup UNION { ObjEdges(o) : o \in S }
    IN  IF T = S THEN S ELSE ObjClosure(T)

\* The objects reachable from oid, oid included
ObjReachable(oid) == ObjClosure({oid})
\* The reference graph reachable from oid contains a directed cycle
ObjCycleFrom(oid) == \E o \in ObjReachable(oid) : o \in ObjClosure(ObjEdges(o))
\* An object reachable from oid is not in the revision
ObjMissingFrom(oid) ==
    \E o \in ObjReachable(oid) :
        revision_objects[o].known /\ ~revision_objects[o].present

\* The GetObjectReference call for the last root has returned or raised
ObjSettled ==
    /\ revision_roots # <<>>
    /\ \/ obj_pc \in {"CircularObjectReference", "ObjectNotFound", "done"}
       \/ obj_pc = "running" /\ call_stack = <<>>
ObjReturned == ObjSettled /\ obj_pc \in {"running", "done"}

\* C2 (as claimed): GetObjectReference(oid) fails with CircularObjectReference
\* if and only if the reference graph reachable from oid contains a directed
\* cycle.
C2_CircularIffCycle ==
    ObjSettled =>
        ((obj_pc = "CircularObjectReference") <=> ObjCycleFrom(Last(revision_roots)))

\* C2 (amended): GetObjectReference(oid) fails with CircularObjectReference only
\* if the reference graph reachable from oid contains a directed cycle, and
\* whenever that graph contains a cycle the call fails: with
\* CircularObjectReference, or with ObjectNotFound when an object missing from
\* the revision is requested before the cycle closes. An object referenced from
\* several parents in an acyclic graph is built once, and later requests return
\* the object stored in the per-revision dictionary without error.
C2_CircularOnlyOnCycle ==
    /\ ObjSettled =>
         LET oid == Last(revision_roots)
         IN  /\ (obj_pc = "CircularObjectReference") => ObjCycleFrom(oid)
             /\ ObjCycleFrom(oid) =>
                    obj_pc \in {"CircularObjectReference", "ObjectNotFound"}
             /\ (obj_pc = "ObjectNotFound") => ObjMissingFrom(oid)
             /\ ObjReturned => \A o \in ObjReachable(oid) : obj_dict[o] = "built"
    /\ obj_pc # "idle" =>
         \A o \in Oids :
            /\ make_count[o] <= 1
            /\ stored_count[o] > 0 => (obj_dict[o] = "built" /\ make_count[o] = 1)

\* C2 witness: an object with two different parents was built once, the second
\* request was answered from the dictionary, and the roles ended without error
C2_Witness ==
    /\ obj_pc = "done"
    /\ \E o, p, q \in Oids :
          /\ p # q /\ p # o /\ q # o
          /\ o \in ObjEdges(p) /\ o \in ObjEdges(q)
          /\ obj_dict[p] = "built" /\ obj_dict[q] = "built"
          /\ make_count[o] = 1 /\ stored_count[o] > 0

\* A second state of C2: a cycle was met and reported
C2_WitnessCycle ==
    /\ obj_pc = "CircularObjectReference"
    /\ Len(call_stack) >= 2

ObjFinished == obj_pc \in {"done", "CircularObjectReference", "ObjectNotFound"}

\* C3: GetObjectReference on every oid reachable from any root role terminates:
\* it returns the built object or fails with CircularObjectReference or
\* ObjectNotFound, and each oid is constructed at most once per revision.
C3_TerminatesBuildingOnce ==
    /\ <>ObjFinished
    /\ [](obj_pc # "idle" => \A o \in Oids : make_count[o] <= 1)

\* C3 witness: every object of the revision was requested and built, once each,
\* under two roles
C3_Witness ==
    /\ obj_pc = "done"
    /\ Len(revision_roots) = MaxRoles
    /\ \A o \in Oids : make_count[o] = 1 /\ obj_dict[o] = "built"

-----------------------------------------------------------------------------
(* Claims about the revision-manifest decoder (SpecRML) *)

\* The first loop holds an ObjectGroupListReferenceFND of an encrypted revision
EncryptedAtObjectGroup ==
    /\ rml_pc = "loop1"
    /\ revision.odcsDefault # 0
    /\ node.ID = "ObjectGroupListReferenceFND"

\* C4: decoding a revision whose odcsDefault is non-zero always completes: an
\* ObjectGroupListReferenceFND node is consumed without being decoded, so the
\* step that meets one reads the next node (or finds the list exhausted) and
\* leaves the revision with no object groups.
C4_EncryptedSkipsObjectGroups ==
    [][EncryptedAtObjectGroup =>
            /\ ~rml_spin'
            /\ rml_pc' \in {"loop1", "StopIteration"}
            /\ revision'.object_groups = {}]_vars

\* The same loop on a plain revision does read on: the object group is
\* registered and the next node is taken
C4_PlainObjectGroupRead ==
    /\ rml_pc = "loop1"
    /\ revision.odcsDefault = 0
    /\ revision.object_groups = {1}
    /\ ~rml_spin

\* The revision of the last start node has been registered
RMLRegistered ==
    /\ rml_start.node.rid \in DOMAIN revisions
    /\ revisions[rml_start.node.rid].order = rml_start.order

\* C5: a revision whose ridDependent is not null is decoded only if a revision
\* with that rid was decoded earlier in the same list and has the same
\* odcsDefault; when no such revision was decoded, the decode fails with
\* RevisionMismatch and the failing revision is not added to the list's
\* revisions.
C5_DependentDecodedEarlier ==
    LET n == rml_start.node
        before == rml_start.before
    IN  (rml_start.order > 0 /\ n.ridDependent # NULL_ExGUID) =>
            IF n.ridDependent \notin DOMAIN before
            THEN rml_pc = "RevisionMismatch" /\ revisions = before
            ELSE /\ before[n.ridDependent].order < rml_start.order
                 /\ IF before[n.ridDependent].odcsDefault = n.odcsDefault
                    THEN rml_pc \notin {"RevisionMismatch", "AssertionError"}
                    ELSE rml_pc = "AssertionError" /\ revisions = before

\* C5 witness: an encrypted revision that depends on an encrypted revision
\* decoded before it has been registered
C5_Witness ==
    /\ RMLRegistered
    /\ rml_start.node.ridDependent # NULL_ExGUID
    /\ rml_start.node.ridDependent # rml_start.node.rid
    /\ rml_start.node.odcsDefault = 1
    /\ rml_start.before[rml_start.node.ridDependent].odcsDefault = 1

\* A second state of C5: the dependent revision is absent although another
\* revision was decoded, and the decode has failed
C5_WitnessMismatch ==
    /\ rml_pc = "RevisionMismatch"
    /\ DOMAIN rml_start.before # {}
    /\ revisions = rml_start.before

-----------------------------------------------------------------------------
(* Claims about onestore_reader (SpecRD) *)

\* The reader the recorded call was made on, as it was before the call
RDBefore == rd_last.before[rd_last.r]
\* After a clone or an extract that made a reader: the reader called and the
\* reader made
RDParent == readers[1]
RDMade == readers[2]
\* The positions of the image in a reader's window, and the unread ones
Window(rd) == rd.slice_offset .. (rd.slice_offset + rd.length - 1)
Unread(rd) == (rd.slice_offset + rd.offset) .. (rd.slice_offset + rd.length - 1)
RDCalled(ops) == rd_last.op \in ops
\* The bytes of the image at positions [from, from + n)
ImageBytes(from, n) == [i \in 1..n |-> rd_data[from + i]]

\* C12: a read_uint8/16/32/64, read_bytes(n), read_bytes_at(off, n) or skip(n)
\* that would pass the end of the reader's window fails with EndOfBuffer and
\* leaves every reader unchanged; a reader over a zero-length window has
\* remaining() = 0 and every typed read on it fails; a successful read_bytes or
\* skip advances the cursor by exactly n, read_bytes_at does not move it, and
\* the bytes returned are those at the cursor (plus off).
C12_ReadsBoundsChecked ==
    /\ RDCalled({"read_bytes", "read_uint", "skip"}) =>
         LET rd == RDBefore
             n == rd_last.length[1]
         IN  IF rd.offset + n > rd.length
             THEN rd_last.error = "EndOfBuffer" /\ readers = rd_last.before
             ELSE /\ rd_last.error = ""
                  /\ readers = [rd_last.before EXCEPT
                                    ![rd_last.r] = [rd EXCEPT !.offset = @ + n]]
                  /\ rd_last.op # "skip" =>
                        rd_last.bytes = ImageBytes(rd.slice_offset + rd.offset, n)
    /\ RDCalled({"read_bytes_at"}) =>
         LET rd == RDBefore
             n == rd_last.length[1]
             off == rd_last.offset[1]
         IN  /\ readers = rd_last.before
             /\ IF rd.offset + off + n > rd.length
                THEN rd_last.error = "EndOfBuffer"
                ELSE /\ rd_last.error = ""
                     /\ rd_last.bytes =
                            ImageBytes(rd.slice_offset + rd.offset + off, n)
    /\ \A r \in 1..Len(readers) :
          readers[r].length = 0 => remaining(readers[r]) = 0
    /\ (RDCalled({"read_uint"}) /\ RDBefore.length = 0) =>
          rd_last.error = "EndOfBuffer"

\* C12 witness: a typed read of two bytes on a cloned window that has one byte
\* left fails
C12_Witness ==
    /\ RDCalled({"read_uint"})
    /\ rd_last.r = 2
    /\ rd_last.length = Some(2)
    /\ remaining(RDBefore) = 1
    /\ RDBefore.slice_offset > 0
    /\ rd_last.error = "EndOfBuffer"

\* More states of C12: a typed read on a zero-length window, and a read that
\* takes exactly the bytes left
C12_WitnessEmptyWindow ==
    /\ RDCalled({"read_uint"})
    /\ RDBefore.length = 0
    /\ rd_last.error = "EndOfBuffer"

C12_WitnessExactFit ==
    /\ RDCalled({"read_bytes"})
    /\ rd_last.error = ""
    /\ rd_last.length[1] = remaining(RDBefore)
    /\ Len(rd_last.bytes) >= 2
    /\ RDBefore.offset > 0

\* C13: extract(n) with 0 <= n <= remaining() returns a reader over exactly the
\* next n unread bytes and advances the parent's cursor by n; extract(-n) with
\* 0 < n <= remaining() returns a reader over the last n bytes of the parent's
\* window and shortens that window by n, the cursor staying put. Either way
\* the parent's remaining() drops by n and none of the extracted bytes is left
\* among the parent's unread bytes. A request for more than remaining() fails
\* with EndOfBuffer and changes nothing.
C13_ExtractSplitsWindow ==
    (RDCalled({"extract"}) /\ rd_last.length # NoVal) =>
        LET rd == RDBefore
            len == rd_last.length[1]
            n == IF len < 0 THEN -len ELSE len
        IN  IF n > remaining(rd)
            THEN rd_last.error = "EndOfBuffer" /\ readers = rd_last.before
            ELSE /\ rd_last.error = ""
                 /\ RDMade.offset = 0
                 /\ RDMade.length = n
                 /\ remaining(RDParent) = remaining(rd) - n
                 /\ Unread(RDParent) \cap Window(RDMade) = {}
                 /\ RDParent.slice_offset = rd.slice_offset
                 /\ IF len >= 0
                    THEN /\ RDMade.slice_offset = rd.slice_offset + rd.offset
                         /\ RDParent.offset = rd.offset + n
                         /\ RDParent.length = rd.length
                    ELSE /\ RDMade.slice_offset =
                                rd.slice_offset + rd.length - n
                         /\ RDParent.offset = rd.offset
                         /\ RDParent.length = rd.length - n

\* C13 witness: the head of a partly read window is extracted
C13_Witness ==
    /\ RDCalled({"extract"})
    /\ rd_last.error = ""
    /\ rd_last.length # NoVal
    /\ rd_last.length[1] >= 2
    /\ RDBefore.offset > 0
    /\ remaining(RDParent) > 0

\* More states of C13: a tail is cut off, and too long a tail is refused
C13_WitnessTail ==
    /\ RDCalled({"extract"})
    /\ rd_last.error = ""
    /\ rd_last.length # NoVal
    /\ rd_last.length[1] <= -2
    /\ RDBefore.offset > 0
    /\ RDBefore.slice_offset > 0

C13_WitnessRefused ==
    /\ RDCalled({"extract"})
    /\ rd_last.error = "EndOfBuffer"
    /\ rd_last.length # NoVal
    /\ rd_last.length[1] < 0
    /\ RDBefore.offset > 0
    /\ -rd_last.length[1] = remaining(RDBefore) + 1

\* Every reader's cursor is inside its window and its window inside the image
ReadersInImage ==
    \A r \in 1..Len(readers) :
        /\ 0 <= readers[r].offset
        /\ readers[r].offset <= readers[r].length
        /\ 0 <= readers[r].slice_offset
        /\ readers[r].slice_offset + readers[r].length <= Len(rd_data)

\* A reader made by clone or extract starts at cursor 0 inside the window of
\* the reader it was made from, and clone leaves that reader as it was
MadeInsideMaker ==
    /\ (RDCalled({"clone", "extract"}) /\ rd_last.error = "") =>
          /\ RDMade.offset = 0
          /\ RDBefore.slice_offset <= RDMade.slice_offset
          /\ RDMade.slice_offset + RDMade.length
                <= RDBefore.slice_offset + RDBefore.length
    /\ RDCalled({"clone"}) =>
          IF rd_last.error = "" THEN RDParent = RDBefore
          ELSE readers = rd_last.before

\* A reader cloned from a FileChunkRef covers [ref.stp, ref.stp + ref.cb)
RefWindowExact ==
    (RDCalled({"clone"}) /\ rd_last.ref # NoVal /\ rd_last.error = "") =>
        /\ RDMade.slice_offset = rd_last.ref[1].stp
        /\ RDMade.length = rd_last.ref[1].cb

\* C14: after any sequence of clone, extract, read and skip calls every reader
\* has 0 <= cursor <= length and slice_offset + length <= size of the image;
\* a reader returned by clone or extract has its window inside the window of
\* the reader it was made from (for a FileChunkRef exactly
\* [ref.stp, ref.stp + ref.cb)) and starts at cursor 0, and clone does not
\* change the parent.
C14_ReadersStayInWindow ==
    /\ ReadersInImage
    /\ MadeInsideMaker
    /\ RefWindowExact

\* What holds of C14: everything but the exact window of a FileChunkRef, which
\* holds when no additional_offset is given
C14_WindowsNested ==
    /\ ReadersInImage
    /\ MadeInsideMaker
    /\ rd_last.additional_offset = 0 => RefWindowExact

\* The call that breaks C14: a clone from a FileChunkRef with an
\* additional_offset, whose window is [stp + 1, stp + 1 + cb)
C14_ShiftedRefWindow ==
    /\ RDCalled({"clone"})
    /\ rd_last.error = ""
    /\ rd_last.ref # NoVal
    /\ rd_last.additional_offset = 1
    /\ RDMade.slice_offset = rd_last.ref[1].stp + 1
    /\ RDMade.length = rd_last.ref[1].cb

\* A clone from a FileChunkRef without additional_offset, inside a window
C14_WitnessRef ==
    /\ RDCalled({"clone"})
    /\ rd_last.error = ""
    /\ rd_last.ref # NoVal
    /\ rd_last.additional_offset = 0
    /\ rd_last.ref[1].stp > 0
    /\ rd_last.ref[1].cb >= 2
    /\ RDBefore.offset > 0

-----------------------------------------------------------------------------
(* More claims about the revision-manifest decoder (SpecRML) *)

\* The table a revision resolves compact ids through according to the format:
\* its own, or that of the nearest revision along its dependents that has one.
\* The chain is no longer than the number of registered revisions.
RECURSIVE EffectiveGlobalIdTable(_, _)
EffectiveGlobalIdTable(rev, steps) ==
    IF rev.global_id_table # NoVal THEN rev.global_id_table
    ELSE IF \/ steps = 0
            \/ rev.ridDependent = NULL_ExGUID
            \/ rev.ridDependent \notin DOMAIN revisions
    THEN NoVal
    ELSE EffectiveGlobalIdTable(revisions[rev.ridDependent], steps - 1)

\* The second loop is at a root reference by compact id
AtCompactIdReference ==
    /\ rml_pc = "loop2"
    /\ node.ID = "RootObjectReference2FNDX"

\* C15: a CompactID referenced in a revision resolves through the revision's
\* effective global ID table: the table the revision declares (seeded from its
\* dependent's), or, when it declares none, the table inherited from its
\* dependent, transitively. A reference to an id the effective table holds
\* stores the table's value under the root role.
C15_CompactIdResolvesThroughEffectiveTable ==
    [][ AtCompactIdReference =>
          LET table == EffectiveGlobalIdTable(revision,
                                              Cardinality(DOMAIN revisions))
          IN  (table # NoVal /\ node.coidRoot \in DOMAIN table[1]) =>
                 /\ rml_pc' \in {"loop2", "StopIteration"}
                 /\ revision'.root_objects[node.RootRole] =
                        table[1][node.coidRoot] ]_vars

\* What holds of C15: a revision that declares a table resolves through it,
\* and the table holds its dependent's entries under its own
C15_OwnTableResolves ==
    [][ (AtCompactIdReference /\ revision.global_id_table # NoVal) =>
          LET table == revision.global_id_table[1]
          IN  /\ prev_global_id_table # NoVal =>
                    DOMAIN prev_global_id_table[1] \subseteq DOMAIN table
              /\ node.coidRoot \in DOMAIN table =>
                    /\ rml_pc' \in {"loop2", "StopIteration"}
                    /\ revision'.root_objects[node.RootRole] =
                            table[node.coidRoot] ]_vars

\* The state that breaks C15: a revision without a table of its own refers to
\* a compact id its dependent's table holds, and the decoder raises
C15_InheritedTableNotUsed ==
    /\ rml_pc = "TypeError"
    /\ revision.global_id_table = NoVal
    /\ prev_global_id_table # NoVal
    /\ node.coidRoot \in DOMAIN prev_global_id_table[1]

\* A reference resolved through the revision's own table
C15_WitnessOwnTable ==
    /\ rml_pc = "loop2"
    /\ revision.global_id_table # NoVal
    /\ revision.ridDependent # NULL_ExGUID
    /\ ROOT_ROLE_CONTENTS \in DOMAIN revision.root_objects
    /\ node.ID = "RevisionManifestEndFND"

\* Following ridDependent through the registered revisions from 'rid' reaches
\* NULL_ExGUID without coming back to a rid of 'visited'
RECURSIVE ReachesNull(_, _)
ReachesNull(rid, visited) ==
    IF rid = NULL_ExGUID THEN TRUE
    ELSE IF rid \in visited \/ rid \notin DOMAIN revisions THEN FALSE
    ELSE ReachesNull(revisions[rid].ridDependent, visited \cup {rid})

\* C16: for a sequence of nodes that decodes without error, the relation
\* rid -> ridDependent has no cycle: following ridDependent from any decoded
\* revision reaches NULL_ExGUID and never returns to a rid already visited.
C16_DependencyAcyclic ==
    \A rid \in DOMAIN revisions : ReachesNull(rid, {})

\* What holds of C16: every revision depends on a revision decoded before it,
\* so the chain of revision objects ends
C16_DependentObjectIsOlder ==
    \A rid \in DOMAIN revisions :
        LET rev == revisions[rid]
        IN  /\ rev.order >= 1
            /\ rev.ridDependent = NULL_ExGUID => rev.dep_revision = 0
            /\ rev.ridDependent # NULL_ExGUID =>
                  (1 <= rev.dep_revision /\ rev.dep_revision < rev.order)

\* The state that breaks C16: a list declares rid 1 twice, the second time
\* depending on the first; both decode, and rid 1 depends on rid 1
C16_RidDependsOnItself ==
    /\ rml_pc = "list"
    /\ 1 \in DOMAIN revisions
    /\ revisions[1].ridDependent = 1
    /\ revisions[1].order = 2
    /\ revisions[1].dep_revision = 1

\* A chain of two revisions with distinct rids
C16_WitnessChain ==
    /\ rml_pc = "list"
    /\ DOMAIN revisions = {1, 2}
    /\ revisions[2].ridDependent = 1
    /\ revisions[1].ridDependent = NULL_ExGUID

-----------------------------------------------------------------------------
(* Claims about BuildJsonTree (SpecJson) *)

\* The object spaces other than the root one
PageSpaces == DOMAIN js_object_spaces \ {js_root_gosid}
\* The keys of the revision trees of a page entry that carry root_revision
RootRevisionKeys(page) ==
    { k \in DOMAIN page.revisions : page.revisions[k].root_revision }

\* C17: in all-revisions mode BuildJsonTree returns a tree whose pages map
\* holds, for every object space other than the root one, an entry
\* { type: 'page', revisions: { str(rid): tree } }, in which exactly one tree
\* carries root_revision: the tree of the default-context revision.
C17_AllRevisionsPages ==
    (js_options.all_revisions /\ js_pc # "call") =>
        /\ js_pc = "done"
        /\ js_tree # NoVal
        /\ LET pages == js_tree[1].pages
           IN  /\ DOMAIN pages = { StrOf(gosid) : gosid \in PageSpaces }
               /\ \A gosid \in PageSpaces :
                     LET space == js_object_spaces[gosid]
                         page == pages[StrOf(gosid)]
                     IN  /\ page.type = "page"
                         /\ DOMAIN page.revisions =
                               { StrOf(space.revisions[i]) :
                                   i \in 1..Len(space.revisions) }
                         /\ space.root_revision_ctx # NoVal
                         /\ RootRevisionKeys(page) =
                               {StrOf(space.root_revision_ctx[1])}

\* The state that breaks C17: the all-revisions call has raised
C17_AllRevisionsRaises ==
    /\ js_options.all_revisions
    /\ js_pc = "AttributeError"
    /\ js_tree = NoVal
    /\ PageSpaces # {}

\* What holds of C17: the entry MakeAllRevisionsJsonTree makes for a space has
\* one tree per revision, and root_revision on the tree of the default-context
\* revision when the space has one
C17_PageEntryShape ==
    \A gosid \in DOMAIN js_object_spaces :
        LET space == js_object_spaces[gosid]
            page == MakeAllRevisionsJsonTree(space)
        IN  /\ page.type = "page"
            /\ DOMAIN page.revisions =
                  { StrOf(space.revisions[i]) : i \in 1..Len(space.revisions) }
            /\ RootRevisionKeys(page) =
                  IF space.root_revision_ctx = NoVal THEN {}
                  ELSE {StrOf(space.root_revision_ctx[1])}

-----------------------------------------------------------------------------
(* Claims about the files of a run (SpecFH) *)

FHEnded == fh_pc \in {"exit", "exit_error"}

\* C18: every file handle the program opens (the --log file, versions.txt,
\* index.txt, the page files) is closed on every exit path: no run ends,
\* normally or with an error, with a handle still open.
C18_HandlesClosedAtExit == FHEnded => fh_open = {}

\* What holds of C18: a run that ends normally has closed every handle, and
\* the files opened in a 'with' are closed however the run ends
C18_WithHandlesClosed ==
    /\ fh_pc = "exit" => fh_open = {}
    /\ FHEnded => fh_open \subseteq {"log", "versions.txt"}

\* The states that break C18: the run ends on an error raised while the log
\* file, or versions.txt, is open
C18_LogLeftOpen ==
    /\ fh_pc = "exit_error"
    /\ fh_open = {"log"}

C18_VersionsLeftOpen ==
    /\ fh_pc = "exit_error"
    /\ fh_open = {"versions.txt"}
    /\ fh_left > 0

-----------------------------------------------------------------------------
(* Claims about the timestamp of a revision (SpecTS) *)

\* The roles of the revision, and whether it is a conflict revision
RolesBuilt == { ts_done[i] : i \in 1..Len(ts_done) }
IsConflictRevision ==
    /\ ROOT_ROLE_PAGE_METADATA \in RolesBuilt
    /\ Truthy(ts_root_objects[ROOT_ROLE_PAGE_METADATA].ConflictingUserName)
\* The same roles in another order
OtherOrders == { order \in DistinctSeqs(RootRoles) :
                    { order[i] : i \in 1..Len(order) } = RolesBuilt }
\* The timestamp is that of the revision metadata, or for a conflict revision
\* the topology creation timestamp of the page metadata
TimestampFromMetadata ==
    LET rm == ts_root_objects[ROOT_ROLE_REVISION_METADATA]
        pm == ts_root_objects[ROOT_ROLE_PAGE_METADATA]
    IN  /\ (/\ ~IsConflictRevision
            /\ ROOT_ROLE_REVISION_METADATA \in RolesBuilt
            /\ rm.LastModifiedTimeStamp # NoVal) =>
               ts_ctx.last_modified_timestamp = rm.LastModifiedTimeStamp
        /\ (IsConflictRevision /\ pm.TopologyCreationTimeStamp # NoVal) =>
               ts_ctx.last_modified_timestamp = pm.TopologyCreationTimeStamp
SameForEveryOrder ==
    \A order \in OtherOrders :
        BuildRoles(NoTimestampCtx, order, ts_root_objects)
            .last_modified_timestamp = ts_ctx.last_modified_timestamp

\* C19: a revision's last_modified_timestamp is the LastModifiedTimeStamp of
\* its revision-metadata root, except for a conflict revision, where it is
\* the TopologyCreationTimeStamp of the page-metadata root; the timestamp is
\* the same for every order in which the root roles are processed.
C19_TimestampFromMetadata ==
    ts_pc = "done" => (TimestampFromMetadata /\ SameForEveryOrder)

\* What holds of C19: the value, in every order; and the order does not
\* matter unless a conflict revision has no TopologyCreationTimeStamp
C19_TimestampWhenPropertiesPresent ==
    ts_pc = "done" =>
        /\ TimestampFromMetadata
        /\ (\/ ~IsConflictRevision
            \/ ts_root_objects[ROOT_ROLE_PAGE_METADATA]
                    .TopologyCreationTimeStamp # NoVal) => SameForEveryOrder

\* The state that breaks C19: a conflict revision without
\* TopologyCreationTimeStamp, revision metadata first, keeps
\* LastModifiedTimeStamp; with the page metadata first it has no timestamp
C19_OrderDecides ==
    /\ ts_pc = "done"
    /\ ts_done = <<ROOT_ROLE_REVISION_METADATA, ROOT_ROLE_PAGE_METADATA>>
    /\ IsConflictRevision
    /\ ts_ctx.last_modified_timestamp = Some(10)
    /\ BuildRoles(NoTimestampCtx,
                  <<ROOT_ROLE_PAGE_METADATA, ROOT_ROLE_REVISION_METADATA>>,
                  ts_root_objects).last_modified_timestamp = NoVal

\* A conflict revision with all three roles, the page metadata last
C19_WitnessConflict ==
    /\ ts_pc = "done"
    /\ Len(ts_done) = 3
    /\ ts_done[3] = ROOT_ROLE_PAGE_METADATA
    /\ IsConflictRevision
    /\ ts_ctx.last_modified_timestamp = Some(20)

-----------------------------------------------------------------------------
(* Claims about the grouping by guid (SpecGB) *)

\* The revisions entered so far that have this guid
EnteredWith(guid) ==
    { gb_entered[i] : i \in { j \in 1..Len(gb_entered) :
                                 gb_entered[j].page_persistent_guid = guid } }
\* The numbers of the extension buckets of a guid in a tree
Buckets(tree, guid) ==
    { k \in 1..(ExtRangeEnd - 1) : DictHas(tree, ExtGuid(guid, k)) }
\* The entries of a tree under the keys of other guids
OtherEntries(tree, guid) ==
    { <<tree[i].key, tree[i].val>> :
        i \in { j \in 1..Len(tree) : tree[j].key.guid # guid } }

\* The tree after any number of iterations
GuidEntriesLatest ==
    \A guid \in Guids :
        LET entered == EnteredWith(guid)
            buckets == Buckets(gb_version_tree, guid)
        IN  IF entered = {}
            THEN ~DictHas(gb_version_tree, PageKey(guid)) /\ buckets = {}
            ELSE LET entry == DictValue(gb_version_tree, PageKey(guid))
                 IN  /\ DictHas(gb_version_tree, PageKey(guid))
                     /\ entry \in entered
                     /\ \A rev \in entered : rev.last_modified_timestamp
                                                <= entry.last_modified_timestamp
                     /\ buckets = 1..Cardinality(buckets)
                     /\ \A k \in buckets :
                           LET held == DictValue(gb_version_tree,
                                                 ExtGuid(guid, k))
                           IN  /\ held \in entered
                               /\ held.last_modified_timestamp =
                                     entry.last_modified_timestamp

\* What the last iteration did to the tree
LastIterationEntered ==
    gb_entered # <<>> =>
        LET rev == Last(gb_entered)
            guid == rev.page_persistent_guid
            before == Buckets(gb_before, guid)
            after == Buckets(gb_version_tree, guid)
        IN  /\ OtherEntries(gb_version_tree, guid) =
                  OtherEntries(gb_before, guid)
            /\ IF ~DictHas(gb_before, PageKey(guid))
               THEN /\ DictValue(gb_version_tree, PageKey(guid)) = rev
                    /\ after = {}
               ELSE LET prev == DictValue(gb_before, PageKey(guid))
                        entry == DictValue(gb_version_tree, PageKey(guid))
                    IN  IF prev.last_modified_timestamp
                              < rev.last_modified_timestamp
                        THEN entry = rev /\ after = {}
                        ELSE IF rev.page_hash # prev.page_hash
                        THEN /\ entry = prev
                             /\ after = before \cup {Cardinality(before) + 1}
                             /\ DictValue(gb_version_tree,
                                    ExtGuid(guid, Cardinality(before) + 1)) = rev
                             /\ \A k \in before :
                                   DictValue(gb_version_tree, ExtGuid(guid, k))
                                     = DictValue(gb_before, ExtGuid(guid, k))
                        ELSE gb_version_tree = gb_before

\* C20: for the revisions of one timestamp that share a guid, the entry under
\* the guid has the greatest last_modified_timestamp among them; when a
\* strictly later revision replaces the entry, every extension bucket of the
\* guid is removed; a revision with the timestamp of the entry and a different
\* page_hash goes to the lowest free bucket; so the buckets of a guid are
\* numbered from 1 without a gap and share the timestamp of the entry.
C20_GuidBuckets ==
    gb_pc \in {"loop", "done"} => (GuidEntriesLatest /\ LastIterationEntered)

\* C20 witness: a strictly later revision replaces an entry that had a bucket
C20_Witness ==
    /\ gb_pc = "loop"
    /\ gb_entered # <<>>
    /\ Buckets(gb_before, Last(gb_entered).page_persistent_guid) # {}
    /\ Buckets(gb_version_tree, Last(gb_entered).page_persistent_guid) = {}
    /\ DictValue(gb_version_tree, PageKey(Last(gb_entered).page_persistent_guid))
          = Last(gb_entered)

\* More states of C20: a second bucket is filled
C20_WitnessSecondBucket ==
    /\ gb_pc = "loop"
    /\ gb_entered # <<>>
    /\ Buckets(gb_before, Last(gb_entered).page_persistent_guid) = {1}
    /\ Buckets(gb_version_tree, Last(gb_entered).page_persistent_guid) = {1, 2}

\* The keys of a tree that belong to a guid: the guid itself and its buckets
GuidKeys(tree, guid) ==
    { k \in DictKeys(tree) : k.guid = guid /\ k.sub = None }
\* Two entries of a tree hold the same timestamp and the same page_hash
SameContent(tree, k1, k2) ==
    /\ DictValue(tree, k1).last_modified_timestamp
          = DictValue(tree, k2).last_modified_timestamp
    /\ DictValue(tree, k1).page_hash = DictValue(tree, k2).page_hash

\* C21: no two entries of the same guid in a directory (the key guid and the
\* extension buckets guid-k) have equal timestamp and equal page_hash: a
\* revision that equals one already entered for the guid is not entered again.
C21_NoDuplicateEntries ==
    gb_pc \in {"loop", "done"} =>
        \A guid \in Guids :
            \A k1, k2 \in GuidKeys(gb_version_tree, guid) :
                k1 # k2 => ~SameContent(gb_version_tree, k1, k2)

\* What holds of C21: a revision is compared with the entry under the key
\* guid only, so no extension bucket repeats the content of that entry, and a
\* revision equal to that entry leaves the tree as it was.
C21_EntryNotDuplicated ==
    gb_pc \in {"loop", "done"} =>
        /\ \A guid \in Guids :
              \A k \in Buckets(gb_version_tree, guid) :
                 ~SameContent(gb_version_tree, PageKey(guid), ExtGuid(guid, k))
        /\ gb_entered # <<>> =>
              LET rev == Last(gb_entered)
                  key == PageKey(rev.page_persistent_guid)
              IN  (/\ DictHas(gb_before, key)
                   /\ DictValue(gb_before, key).last_modified_timestamp
                         = rev.last_modified_timestamp
                   /\ DictValue(gb_before, key).page_hash = rev.page_hash)
                  => gb_version_tree = gb_before

\* The state that refutes C21: buckets 1 and 2 of a guid hold the same
\* timestamp and the same page_hash
C21_BucketsRepeatContent ==
    /\ gb_pc = "done"
    /\ \E guid \in Guids :
          /\ {1, 2} \subseteq Buckets(gb_version_tree, guid)
          /\ SameContent(gb_version_tree, ExtGuid(guid, 1), ExtGuid(guid, 2))

\* More states of C21: a revision equal to the entry under its guid is dropped
C21_WitnessSuppressed ==
    /\ gb_pc = "loop"
    /\ Len(gb_entered) >= 2
    /\ gb_version_tree = gb_before
    /\ DictValue(gb_before, PageKey(Last(gb_entered).page_persistent_guid)).page_hash
          = Last(gb_entered).page_hash

-----------------------------------------------------------------------------
(* Claims about the end of the extension buckets (SpecCopies) *)

\* The last iteration met a guid whose buckets 1 .. 99 were all taken, with a
\* revision of the timestamp of the entry and another hash
AllBucketsTaken ==
    /\ gb_entered # <<>>
    /\ LET rev == Last(gb_entered)
           guid == rev.page_persistent_guid
       IN  /\ DictHas(gb_before, PageKey(guid))
           /\ Buckets(gb_before, guid) = 1..(ExtRangeEnd - 1)
           /\ ~(DictValue(gb_before, PageKey(guid)).last_modified_timestamp
                   < rev.last_modified_timestamp)
           /\ DictValue(gb_before, PageKey(guid)).page_hash # rev.page_hash

\* C22: for one guid at one timestamp the buckets are guid-1 .. guid-99 at
\* most; when all 99 are taken, a further revision of that timestamp with a
\* different hash is dropped: the loop goes on, no bucket guid-100 appears and
\* no entry is overwritten.
C22_BucketCap ==
    gb_pc \in {"loop", "done"} =>
        /\ \A key \in DictKeys(gb_version_tree) : key.ext \in 0..(ExtRangeEnd - 1)
        /\ AllBucketsTaken => gb_version_tree = gb_before

\* C22 witness: the 101st copy of a page meets 99 taken buckets
C22_Witness ==
    /\ gb_pc = "loop"
    /\ AllBucketsTaken
    /\ Len(gb_entered) = ExtRangeEnd + 1
    /\ Len(gb_version_tree) = ExtRangeEnd

\* More states of C22: bucket 99 is filled by the 100th copy
C22_WitnessLastBucket ==
    /\ gb_pc = "loop"
    /\ Len(gb_entered) = ExtRangeEnd
    /\ Buckets(gb_before, "g1") = 1..(ExtRangeEnd - 2)
    /\ Buckets(gb_version_tree, "g1") = 1..(ExtRangeEnd - 1)

-----------------------------------------------------------------------------
(* Claims about the root objects of dependent revisions (SpecRML) *)

\* The dict a revision object made for its root objects, by the order of the
\* revision in the list
RootObjectsOf(order) == root_dicts.dicts[order]

\* The root objects of every registered revision are still what they were when
\* its decoding returned
RegisteredRootObjectsKept ==
    \A rid \in DOMAIN revisions :
        revisions[rid].root_objects = RootObjectsOf(revisions[rid].order)

\* The registered revision R of the last start node depends on D: its root
\* objects are those of D with R's own root references over them, and D's are
\* what they were when R was started
DependentRootObjectsOverridden ==
    (RMLRegistered /\ rml_start.node.ridDependent # NULL_ExGUID) =>
        LET R == revisions[rml_start.node.rid]
            D == rml_start.before[rml_start.node.ridDependent]
        IN  /\ R.dep_revision = D.order
            /\ R.root_objects = rml_start.own @@ RootObjectsOf(D.order)
            /\ RootObjectsOf(D.order) = D.root_objects

\* A step changes the root objects of no revision but the one being decoded
OtherRootObjectsUnchanged ==
    \A order \in 1..Len(root_dicts.dicts) :
        order # rev_count' => root_dicts'.dicts[order] = root_dicts.dicts[order]

\* C23: after decoding a revision R with non-null ridDependent D, R's
\* root-object map equals D's root-object map overridden by R's own root-object
\* references, and D's root-object map is unchanged by decoding R or any later
\* revision that depends on D or on R (copy-on-write).
C23_RootObjectsCopyOnWrite ==
    /\ [](RegisteredRootObjectsKept /\ DependentRootObjectsOverridden)
    /\ [][OtherRootObjectsUnchanged]_vars

\* C23 witness: R keeps the page-metadata root of D and stores a contents
\* root of its own over that of D
C23_Witness ==
    /\ RMLRegistered
    /\ rml_start.node.ridDependent # NULL_ExGUID
    /\ LET R == revisions[rml_start.node.rid]
           D == rml_start.before[rml_start.node.ridDependent]
       IN  /\ DOMAIN D.root_objects
                 = {ROOT_ROLE_CONTENTS, ROOT_ROLE_PAGE_METADATA}
           /\ DOMAIN rml_start.own = {ROOT_ROLE_CONTENTS}
           /\ R.root_objects[ROOT_ROLE_CONTENTS] # D.root_objects[ROOT_ROLE_CONTENTS]
           /\ R.root_objects[ROOT_ROLE_PAGE_METADATA]
                 = D.root_objects[ROOT_ROLE_PAGE_METADATA]
           /\ RootObjectsOf(D.order) = D.root_objects

\* More states of C23: a third revision depends on R, stores a root of its
\* own, and the root objects of D and of R are not those of the third
C23_WitnessLater ==
    /\ RMLRegistered
    /\ rml_start.order = 3
    /\ rml_start.node.ridDependent = 2
    /\ ROOT_ROLE_CONTENTS \in DOMAIN rml_start.own
    /\ ROOT_ROLE_CONTENTS \in DOMAIN RootObjectsOf(1)
    /\ RootObjectsOf(1) # RootObjectsOf(3)
    /\ RootObjectsOf(2) # RootObjectsOf(3)

-----------------------------------------------------------------------------
(* Claims about the order of the nodes of a revision-manifest list (SpecRML) *)

\* The node ids the first loop of a revision takes, and those the second takes
PreTableIds ==
    {"ObjectGroupListReferenceFND", "ObjectInfoDependencyOverridesFND",
     "RootObjectReference2FNDX"}
PostTableIds ==
    {"ObjectInfoDependencyOverridesFND", "RootObjectReference3FND",
     "DataSignatureGroupDefinitionFND", "ObjectDeclarationWithRefCountFNDX",
     "ObjectDeclarationWithRefCount2FNDX", "ObjectRevisionWithRefCountFNDX",
     "ObjectRevisionWithRefCount2FNDX", "RootObjectReference2FNDX"}

\* The first node of the list
ListStartStep ==
    rml_pc = "start" =>
        /\ rml_pc' \in {"list", "UnexpectedFileNode", "StopIteration"}
        /\ rml_pc' = "list" => node'.ID = "RevisionManifestListStartFND"
        /\ rml_pc' = "UnexpectedFileNode" =>
              node'.ID # "RevisionManifestListStartFND"

\* A node between two revisions
BetweenRevisionsStep ==
    rml_pc = "list" =>
        /\ rml_pc' = "list" => node'.ID \in RevisionRoleIds
        /\ rml_pc' = "UnexpectedFileNode" =>
              node'.ID \notin RevisionRoleIds \cup RevisionManifestStartIds
        /\ rml_pc' \notin {"list", "UnexpectedFileNode", "done"} =>
              /\ rml_start'.node.ID \in RevisionManifestStartIds
              /\ rev_count' = rev_count + 1

\* A node of a revision before anything but the nodes of the first loop was seen
PreTableStep ==
    rml_pc = "loop1" =>
        /\ rml_pc' = "loop1" => node.ID \in PreTableIds
        /\ rml_pc' = "loop2" =>
              /\ node.ID \notin PreTableIds \cup {"RevisionManifestEndFND"}
              /\ \/ node.ID \in GlobalIdTableStartIds
                 \/ node' = node /\ revision' = revision
        /\ rml_pc' = "list" => node.ID = "RevisionManifestEndFND"
        /\ rml_pc' = "StopIteration" =>
              node.ID \in PreTableIds \cup GlobalIdTableStartIds

\* A node of a revision after a node outside the first loop's was seen
PostTableStep ==
    rml_pc = "loop2" =>
        /\ rml_pc' # "loop1"
        /\ node.ID \in {"ObjectGroupListReferenceFND"} \cup GlobalIdTableStartIds =>
              rml_pc' = "UnexpectedFileNode"
        /\ node.ID \notin PostTableIds \cup {"RevisionManifestEndFND"} =>
              rml_pc' = "UnexpectedFileNode"
        /\ rml_pc' \in {"loop2", "StopIteration"} => node.ID \in PostTableIds
        /\ rml_pc' = "list" => node.ID = "RevisionManifestEndFND"

\* Decoding has stopped
RMLAborted ==
    rml_pc \in {"UnexpectedFileNode", "StopIteration", "RevisionMismatch",
                "AssertionError", "UnboundLocalError", "KeyError", "TypeError",
                "done"}

\* C24: the decoder takes the nodes only in phase order: the list begins with
\* RevisionManifestListStartFND; between revisions only role declarations
\* occur; inside a revision, once a node outside the pre-global-table set has
\* been seen, an ObjectGroupListReferenceFND, a second global-id-table start
\* or any node outside the post-table set ends decoding with
\* UnexpectedFileNode; a node is passed over only when its phase knows it, and
\* decoding that has stopped takes no further node.
C24_PhaseOrder ==
    [][ /\ ListStartStep
        /\ BetweenRevisionsStep
        /\ PreTableStep
        /\ PostTableStep
        /\ ~RMLAborted ]_vars

\* C24 witness: a second global-id-table start in a revision that has its
\* table ends decoding
C24_Witness ==
    /\ rml_pc = "UnexpectedFileNode"
    /\ ~RMLRegistered
    /\ revision.order = rml_start.order
    /\ revision.global_id_table # NoVal
    /\ node.ID \in GlobalIdTableStartIds

\* More states of C24: an object-group reference after a root reference of
\* the second loop ends decoding
C24_WitnessObjectGroup ==
    /\ rml_pc = "UnexpectedFileNode"
    /\ ~RMLRegistered
    /\ revision.order = rml_start.order
    /\ ROOT_ROLE_PAGE_METADATA \in DOMAIN rml_start.own
    /\ node.ID = "ObjectGroupListReferenceFND"

\* More states of C24: a node that is no role declaration between two
\* revisions ends decoding
C24_WitnessBetween ==
    /\ rml_pc = "UnexpectedFileNode"
    /\ RMLRegistered
    /\ node.ID = "RevisionManifestEndFND"

-----------------------------------------------------------------------------
(* Claims about the loops of binary_search.py (SpecBSAny) *)

\* The assertions met so far held, and every index read was one of the array
BSReadsInRange ==
    /\ bs_assert_ok
    /\ bs_mid # -2 => bs_mid \in 0..(Len(array) - 1)
    /\ bs_fn \in {"Find", "LowerBound"} => (0 <= bottom /\ top <= Len(array))
    /\ bs_fn = "UpperBound" => (-1 <= bottom /\ top <= Len(array) - 1)
    /\ bottom <= top

\* An iteration that does not leave the loop narrows the range
BSRangeNarrows ==
    (bs_pc = "loop" /\ bs_pc' = "loop") => top' - bottom' < top - bottom

\* C25: for every finite array, the empty one included, and every target,
\* Find, LowerBound and UpperBound terminate; the assertions in the loops
\* (mid < top in Find and LowerBound, mid > bottom in UpperBound) hold on every
\* iteration; every index read is within 0 .. len(array)-1; and top - bottom
\* strictly decreases on every iteration that does not exit the loop.
C25_BinarySearchTerminates ==
    /\ []BSReadsInRange
    /\ [][BSRangeNarrows]_vars
    /\ <>(bs_pc = "done")

\* C25 witness: a call on an unsorted array of full length has returned after
\* reading an item
C25_Witness ==
    /\ bs_pc = "done"
    /\ Len(array) = MaxLen
    /\ \E i \in 1..(Len(array) - 1) : array[i] > array[i + 1]
    /\ bs_mid # -2

\* More states of C25: a call on the empty array has returned without a read
C25_WitnessEmpty ==
    /\ bs_pc = "done"
    /\ array = <<>>
    /\ bs_mid = -2
    /\ bs_fn = "UpperBound"

-----------------------------------------------------------------------------
(* More claims about GetVersions (Spec) *)

\* A list of versions in strictly ascending order of both timestamps, each
\* version created no later than it was last modified
StrictlyAscending(vers) ==
    /\ \A i \in 1..Len(vers) :
          vers[i].CreatedTimeStamp <= vers[i].LastModifiedTimeStamp
    /\ \A i \in 1..(Len(vers) - 1) :
          /\ vers[i].LastModifiedTimeStamp < vers[i + 1].LastModifiedTimeStamp
          /\ vers[i].CreatedTimeStamp < vers[i + 1].CreatedTimeStamp

\* C26: the list GetVersions returns is strictly increasing in
\* LastModifiedTimeStamp and in CreatedTimeStamp, every version has
\* CreatedTimeStamp <= LastModifiedTimeStamp, and a second call returns the
\* same list without going through the loop again (every page version of the
\* model has a timestamp).
C26_VersionsAscendingAndCached ==
    /\ StrictlyAscending(versions)
    /\ \A i \in 1..Len(gv_returned) :
          /\ StrictlyAscending(gv_returned[i].list)
          /\ gv_returned[i].list = gv_returned[1].list
          /\ gv_returned[i].computed = (i = 1)
    /\ gv_returned # <<>> => versions = gv_returned[1].list

\* C26 witness: the second call has returned a list of several versions, one
\* of them coalesced from candidates of different timestamps
C26_Witness ==
    /\ Len(gv_returned) = 2
    /\ Len(gv_returned[2].list) >= 2
    /\ \E i \in 1..Len(versions) :
          versions[i].CreatedTimeStamp < versions[i].LastModifiedTimeStamp

\* The time a version spans
VersionSpan(ver) == ver.LastModifiedTimeStamp - ver.CreatedTimeStamp

\* C27: every version of the list GetVersions returns spans less than the
\* coalescing window: LastModifiedTimeStamp - CreatedTimeStamp is below
\* combine_revisions_time_span when the span is positive and is 0 when the
\* span is 0 (the value without --combine-revisions), so with span 0 no two
\* candidates are ever coalesced.
C27_VersionSpanBelowWindow ==
    /\ \A i \in 1..Len(versions) :
          IF combine_revisions_time_span > 0
          THEN VersionSpan(versions[i]) < combine_revisions_time_span
          ELSE VersionSpan(versions[i]) = 0
    /\ (combine_revisions_time_span = 0 /\ GVEmittedAfter) => GVAppended

\* C27 witness: with a positive span a version was coalesced from candidates
\* of two timestamps, and the list is returned
C27_Witness ==
    /\ gv_pc = "done"
    /\ combine_revisions_time_span > 0
    /\ \E i \in 1..Len(versions) : VersionSpan(versions[i]) > 0

\* More states of C27: with span 0 the candidates of all timestamps of the
\* model are versions of their own
C27_WitnessNoSpan ==
    /\ gv_pc = "done"
    /\ combine_revisions_time_span = 0
    /\ Len(versions) = MaxTick

\* The content fingerprint of a version: the (key, hash) pairs of its directory
Fingerprint(ver) == TreeList(ver.directory)

\* C28: in the list GetVersions returns, any two consecutive versions have
\* different content fingerprints, for every combine_revisions_time_span and
\* every sequence of page revisions, including a page whose content returns to
\* an earlier hash.
C28_ConsecutiveVersionsDiffer ==
    gv_pc = "done" =>
        \A i \in 1..(Len(versions) - 1) :
            Fingerprint(versions[i]) # Fingerprint(versions[i + 1])

\* What holds of C28: a candidate is compared with the candidate emitted
\* before it, so a version that is appended differs from the directory the
\* previous version had at that time, and without coalescing (span 0)
\* consecutive versions differ.
C28_AppendedDiffersFromPrevious ==
    /\ (GVEmittedAfter /\ GVAppended) =>
          TreeList(GVCand.version_tree) # TreeList(GVPrev.directory)
    /\ combine_revisions_time_span = 0 =>
          \A i \in 1..(Len(versions) - 1) :
              Fingerprint(versions[i]) # Fingerprint(versions[i + 1])

\* The state that refutes C28: the page returns to the hash of the first
\* version while the second version is still being coalesced
C28_SameFingerprintTwice ==
    /\ gv_pc = "done"
    /\ Len(versions) = 2
    /\ Fingerprint(versions[1]) = Fingerprint(versions[2])
    /\ VersionSpan(versions[2]) > 0

\* More states of C28: with span 0 the page returns to an earlier hash and
\* each of the three candidates is a version
C28_WitnessReturnsToHash ==
    /\ gv_pc = "done"
    /\ combine_revisions_time_span = 0
    /\ Len(versions) = 3
    /\ Fingerprint(versions[1]) = Fingerprint(versions[3])

-----------------------------------------------------------------------------
(* ObjectTreeBuilder: the version picked for a timestamp *)

\* GetVersions as a function of the object spaces, the page index and
\* combine_revisions_time_span: the loop 'for timestamp in timestamps'
RECURSIVE GetVersionsLoop(_, _, _, _, _, _)
GetVersionsLoop(spaces, index, time_span, ts, vers, prev_list) ==
    IF ts = <<>> THEN vers
    ELSE LET cand == CandidateAt(spaces, index, ts[1])
         IN  IF cand = NoVal \/ SameAsPrevious(prev_list, cand[1].tree_list)
             THEN GetVersionsLoop(spaces, index, time_span, Tail(ts), vers, prev_list)
             ELSE GetVersionsLoop(spaces, index, time_span, Tail(ts),
                                  EmitVersion(vers, cand[1], time_span),
                                  cand[1].tree_list)

GetVersions(spaces, index, time_span) ==
    GetVersionsLoop(spaces, index, time_span,
                    SortedSet(AllTimestamps(spaces, index)), <<>>, {})

\* A GetVersionByTimestamp whose upper-bound scan compares LastModifiedTimeStamp
BuilderGetVersionByModified(vers, timestamp, lower_bound, upper_bound) ==
    LET notAfter == { i \in 1..Len(vers) : vers[i].LastModifiedTimeStamp <= timestamp }
        last(S) == CHOOSE i \in S : \A j \in S : j <= i
    IN  IF notAfter = {} THEN NoVal ELSE Some(vers[last(notAfter)])

\* ObjectTreeBuilder.GetVersionByTimestamp: the scans compare CreatedTimeStamp.
\* The reversed scan returns the last match, the forward scans the first one;
\* the exact scan stops at the first version created later
BuilderGetVersionByTimestamp(vers, timestamp, lower_bound, upper_bound) ==
    LET notAfter == { i \in 1..Len(vers) : vers[i].CreatedTimeStamp <= timestamp }
        notBefore == { i \in 1..Len(vers) : vers[i].CreatedTimeStamp >= timestamp }
        exact == { i \in 1..Len(vers) :
                     /\ vers[i].CreatedTimeStamp = timestamp
                     /\ \A j \in 1..(i - 1) : vers[j].CreatedTimeStamp <= timestamp }
        first(S) == CHOOSE i \in S : \A j \in S : i <= j
        last(S) == CHOOSE i \in S : \A j \in S : j <= i
    IN  IF upper_bound
        THEN IF notAfter = {} THEN NoVal ELSE Some(vers[last(notAfter)])
        ELSE IF lower_bound
        THEN IF notBefore = {} THEN NoVal ELSE Some(vers[first(notBefore)])
        ELSE IF exact = {} THEN NoVal ELSE Some(vers[first(exact)])

\* The revisions the second page space may hold when a version is asked for
LaterPageRevisions ==
    {<<>>} \cup
    { <<RevisionCtx(2, 1, ts, None, g, h)>> :
        ts \in Timestamps, g \in Guids, h \in Hashes }

\* A builder whose versions GetVersions has computed
InitVT ==
    /\ \E h \in FirstPageHistories, r2 \in LaterPageRevisions, minutes \in CombineOptions :
          mv_versions = GetVersions(<< ObjectSpaceCtx(1, HistoryRevisions(h, "g1")),
                                       ObjectSpaceCtx(2, r2) >>,
                                    <<1, 2>>, minutes * FiletimePerMinute)
    /\ mv_titles = <<>>
    /\ mv_timestamp = NoVal
    /\ mv_version = NoVal
    /\ mv_output = NoVal
    /\ mv_left = <<>>
    /\ mv_prev_directory = EmptyDict
    /\ mv_title = NoVal
    /\ mv_written = <<>>
    /\ mv_pc = "start"

\* JsonTreeBuilder.BuildRevisionJsonTree(root_tree_name, timestamp): None, or
\* a tree with one entry of 'pages' for each page of the version's directory
BuildRevisionJsonTree ==
    /\ mv_pc = "start"
    /\ \E timestamp \in QueryTimestamps :
          LET version == BuilderGetVersionByTimestamp(mv_versions, timestamp, FALSE, TRUE)
          IN  /\ mv_timestamp' = Some(timestamp)
              /\ mv_version' = version
              /\ mv_output' = IF version = NoVal THEN NoVal
                              ELSE Some([kind |-> "tree", items |-> version[1].directory])
    /\ mv_pc' = "done"
    /\ UNCHANGED <<mv_versions, mv_titles, mv_left, mv_prev_directory, mv_title,
                   mv_written>>

\* MakeVersionFiles with options.timestamp set and options.all_revisions not
\* set: nothing, or _WriteVersionFiles with an empty prev_directory, which
\* makes a file of every item of the version's directory
MakeVersionFilesTimestamp ==
    /\ mv_pc = "start"
    /\ \E timestamp \in QueryTimestamps :
          LET version == BuilderGetVersionByTimestamp(mv_versions, timestamp, FALSE, TRUE)
          IN  /\ mv_timestamp' = Some(timestamp)
              /\ mv_version' = version
              /\ mv_output' = IF version = NoVal THEN NoVal
                              ELSE Some([kind |-> "files", items |-> version[1].directory])
    /\ mv_pc' = "done"
    /\ UNCHANGED <<mv_versions, mv_titles, mv_left, mv_prev_directory, mv_title,
                   mv_written>>

InitVTSpec ==
    /\ BSIdle
    /\ OSIdle
    /\ GVIdle
    /\ ObjIdle
    /\ RMLIdle
    /\ RDIdle
    /\ JSIdle
    /\ FHIdle
    /\ TSIdle
    /\ GBIdle
    /\ InitVT

NextVT ==
    \/ BuildRevisionJsonTree /\ UNCHANGED <<bsVars, osVars, gvVars, objVars, rmlVars, rdVars, jsVars, fhVars, tsVars, gbVars>>
    \/ MakeVersionFilesTimestamp /\ UNCHANGED <<bsVars, osVars, gvVars, objVars, rmlVars, rdVars, jsVars, fhVars, tsVars, gbVars>>

SpecVT == InitVTSpec /\ [][NextVT]_vars

-----------------------------------------------------------------------------
(* Claims about the version picked for a timestamp (SpecVT) *)

\* The revisions of the directory of the version that was picked
PickedItems == { mv_output[1].items[i].val : i \in 1..Len(mv_output[1].items) }

\* C29: the version that GetVersionByTimestamp(t, upper_bound=True) picks for
\* BuildRevisionJsonTree(t) and for MakeVersionFiles with options.timestamp = t
\* has LastModifiedTimeStamp <= t and a directory whose page revisions all
\* have last_modified_timestamp <= t, whatever combine_revisions_time_span
\* is, and nothing is picked when every version is later than t
C29_VersionNotAfterTimestamp ==
    mv_pc = "done" =>
        /\ (\A i \in 1..Len(mv_versions) :
               mv_versions[i].CreatedTimeStamp > mv_timestamp[1]) => mv_version = NoVal
        /\ mv_version # NoVal =>
              /\ mv_version[1].LastModifiedTimeStamp <= mv_timestamp[1]
              /\ \A item \in PickedItems :
                    item.last_modified_timestamp <= mv_timestamp[1]

\* What the scan guarantees: the pick is the last version created at or
\* before t (none when every version is created later), and a version that
\* was not modified after its creation has nothing later than t
C29_CreatedNotAfterTimestamp ==
    mv_pc = "done" =>
        /\ mv_version = NoVal <=>
              \A i \in 1..Len(mv_versions) :
                 mv_versions[i].CreatedTimeStamp > mv_timestamp[1]
        /\ mv_version # NoVal =>
              /\ mv_version[1].CreatedTimeStamp <= mv_timestamp[1]
              /\ \A i \in 1..Len(mv_versions) :
                    mv_versions[i].CreatedTimeStamp <= mv_timestamp[1]
                       => mv_versions[i].CreatedTimeStamp <= mv_version[1].CreatedTimeStamp
              /\ mv_version[1].LastModifiedTimeStamp = mv_version[1].CreatedTimeStamp
                    => \A item \in PickedItems :
                          item.last_modified_timestamp <= mv_timestamp[1]

\* A coalesced version was picked for a timestamp inside its span
C29_PickedModifiedLater ==
    /\ mv_pc = "done"
    /\ mv_version # NoVal
    /\ mv_version[1].LastModifiedTimeStamp > mv_timestamp[1]
    /\ \E item \in PickedItems : item.last_modified_timestamp > mv_timestamp[1]

\* Nothing was picked although the builder has versions
C29_NothingPicked ==
    /\ mv_pc = "done"
    /\ mv_versions # <<>>
    /\ mv_version = NoVal

-----------------------------------------------------------------------------
(* ObjectTreeBuilder.MakeVersionFiles: the sections of versions.txt *)

\* RevisionBuilderCtx.GetTitle(): the page title ('' for a page without one)
Titles == {"", "Home"}
TitleMaps == [Hashes -> Titles]
GetTitle(titles, item_ctx) == titles[item_ctx.page_hash]

\* The values of the directory entries whose index satisfies 'keep', in
\* directory order
RECURSIVE DictValuesWhere(_, _, _)
DictValuesWhere(d, keep(_), i) ==
    IF i > Len(d) THEN <<>>
    ELSE (IF keep(i) THEN <<d[i].val>> ELSE <<>>) \o DictValuesWhere(d, keep, i + 1)

\* sorted(..., key=sort_key): the items of one directory come from different
\* object spaces, so that os_index decides the order
SortedByIndex(items) ==
    SortedBy(items, [i \in 1..Len(items) |-> items[i].os_index])

\* What _WriteVersionFiles returns: the items whose guid was in
\* prev_directory with another hash
ChangedItems(directory, prev_directory) ==
    LET differs(i) ==
            /\ DictHas(prev_directory, directory[i].key)
            /\ DictValue(prev_directory, directory[i].key).page_hash
                  # directory[i].val.page_hash
    IN  DictValuesWhere(directory, differs, 1)

\* 'added' and 'deleted': the items under the guids of 'directory' that
\* 'other' does not have
ItemsOnlyIn(directory, other) ==
    LET missing(i) == ~DictHas(other, directory[i].key)
    IN  SortedByIndex(DictValuesWhere(directory, missing, 1))

\* The messages of one of the three loops: one for each item with a title
RECURSIVE MessagesOf(_, _, _)
MessagesOf(titles, items, prefix) ==
    IF items = <<>> THEN <<>>
    ELSE (IF GetTitle(titles, items[1]) # ""
          THEN <<[item_ctx |-> items[1], msg |-> prefix \o GetTitle(titles, items[1])]>>
          ELSE <<>>)
         \o MessagesOf(titles, Tail(items), prefix)

Messages(titles, added, changed, deleted) ==
    MessagesOf(titles, added, "Added page: ")
    \o MessagesOf(titles, changed, "Modified page: ")
    \o MessagesOf(titles, deleted, "Deleted page: ")

\* Lines 629-642: the local 'title' after the statement, given the value it
\* had before (NoVal: not bound); NoVal when reading it raises
\* UnboundLocalError
TitleAfter(title, added, changed, deleted, messages) ==
    IF Len(messages) = 1 THEN Some(messages[1].msg)
    ELSE LET t1 == IF added # <<>>
                   THEN Some("Added" \o (IF changed # <<>> THEN ", modified" ELSE ""))
                   ELSE IF changed # <<>> THEN Some("Modified") ELSE title
             t2 == IF deleted # <<>> /\ t1 # NoVal
                   THEN Some(t1[1] \o (IF t1[1] # "" THEN ", deleted" ELSE "Deleted"))
                   ELSE t1
         IN  IF t2 = NoVal THEN NoVal ELSE Some(t2[1] \o " pages")

\* A builder whose versions GetVersions has computed, with the titles of its pages
InitMV ==
    /\ \E h \in FirstPageHistories, r2 \in LaterPageRevisions, minutes \in CombineOptions :
          mv_versions = GetVersions(<< ObjectSpaceCtx(1, HistoryRevisions(h, "g1")),
                                       ObjectSpaceCtx(2, r2) >>,
                                    <<1, 2>>, minutes * FiletimePerMinute)
    /\ mv_titles \in TitleMaps
    /\ mv_timestamp = NoVal
    /\ mv_version = NoVal
    /\ mv_output = NoVal
    /\ mv_left = <<>>
    /\ mv_prev_directory = EmptyDict
    /\ mv_title = NoVal
    /\ mv_written = <<>>
    /\ mv_pc = "start"

\* MakeVersionFiles with options.all_revisions, up to the loop
MakeVersionFilesBegin ==
    /\ mv_pc = "start"
    /\ mv_left' = mv_versions
    /\ mv_prev_directory' = EmptyDict
    /\ mv_written' = <<>>
    /\ mv_pc' = "loop"
    /\ UNCHANGED <<mv_versions, mv_titles, mv_timestamp, mv_version, mv_output,
                   mv_title>>

\* One iteration of 'for version in self.GetVersions()': the section of the
\* version, or the exception that ends the run
MakeVersionFilesVersion ==
    /\ mv_pc = "loop"
    /\ mv_left # <<>>
    /\ LET version == mv_left[1]
           changed == ChangedItems(version.directory, mv_prev_directory)
           added == ItemsOnlyIn(version.directory, mv_prev_directory)
           deleted == ItemsOnlyIn(mv_prev_directory, version.directory)
           messages == Messages(mv_titles, added, changed, deleted)
           title == TitleAfter(mv_title, added, changed, deleted, messages)
       IN  IF title = NoVal
           THEN /\ mv_pc' = "failed"
                /\ UNCHANGED <<mv_left, mv_prev_directory, mv_title, mv_written>>
           ELSE /\ mv_written' = Append(mv_written,
                       [version |-> version.LastModifiedTimeStamp,
                        added |-> added, changed |-> changed, deleted |-> deleted,
                        messages |-> IF Len(messages) = 1 THEN <<>> ELSE messages,
                        title_before |-> mv_title,
                        TITLE |-> title[1]])
                /\ mv_title' = title
                /\ mv_prev_directory' = version.directory
                /\ mv_left' = Tail(mv_left)
                /\ UNCHANGED mv_pc
    /\ UNCHANGED <<mv_versions, mv_titles, mv_timestamp, mv_version, mv_output>>

\* The '[versions]' section after the loop
MakeVersionFilesEnd ==
    /\ mv_pc = "loop"
    /\ mv_left = <<>>
    /\ mv_pc' = "done"
    /\ UNCHANGED <<mv_versions, mv_titles, mv_timestamp, mv_version, mv_output,
                   mv_left, mv_prev_directory, mv_title, mv_written>>

InitMVSpec ==
    /\ BSIdle
    /\ OSIdle
    /\ GVIdle
    /\ ObjIdle
    /\ RMLIdle
    /\ RDIdle
    /\ JSIdle
    /\ FHIdle
    /\ TSIdle
    /\ GBIdle
    /\ InitMV

NextMV ==
    \/ MakeVersionFilesBegin /\ UNCHANGED <<bsVars, osVars, gvVars, objVars, rmlVars, rdVars, jsVars, fhVars, tsVars, gbVars>>
    \/ MakeVersionFilesVersion /\ UNCHANGED <<bsVars, osVars, gvVars, objVars, rmlVars, rdVars, jsVars, fhVars, tsVars, gbVars>>
    \/ MakeVersionFilesEnd /\ UNCHANGED <<bsVars, osVars, gvVars, objVars, rmlVars, rdVars, jsVars, fhVars, tsVars, gbVars>>

SpecMV == InitMVSpec /\ [][NextMV]_vars

-----------------------------------------------------------------------------
(* Claims about the sections of versions.txt (SpecMV) *)

\* The title of section s had its value been computed with 'before' in 'title'
SectionTitle(s, before) ==
    TitleAfter(before, s.added, s.changed, s.deleted,
               Messages(mv_titles, s.added, s.changed, s.deleted))

\* The titles a previous iteration may have left in 'title'
EarlierTitles == {NoVal, Some("Added pages"), Some("Modified pages")}

C30_TitleDefined ==
    /\ mv_pc # "failed"
    /\ \A i \in 1..Len(mv_written) :
          LET s == mv_written[i]
          IN  /\ SectionTitle(s, s.title_before) = Some(s.TITLE)
              /\ (i = 1) = (s.title_before = NoVal)
              /\ (\/ Len(Messages(mv_titles, s.added, s.changed, s.deleted)) = 1
                  \/ s.added # <<>>
                  \/ s.changed # <<>>)
                    => \A before \in EarlierTitles :
                          SectionTitle(s, before) = Some(s.TITLE)

\* A section whose title continues the title of the section before it
C30_TitleCarriedOver ==
    \E i \in 2..Len(mv_written) :
       /\ mv_written[i].added = <<>>
       /\ mv_written[i].changed = <<>>
       /\ mv_written[i].deleted # <<>>
       /\ mv_written[i].TITLE = mv_written[i - 1].TITLE \o ", deleted pages"

\* A section of a version that adds, changes and deletes nothing
C30_NothingChanged ==
    \E i \in 2..Len(mv_written) :
       /\ mv_written[i].added = <<>>
       /\ mv_written[i].changed = <<>>
       /\ mv_written[i].deleted = <<>>
       /\ mv_written[i].TITLE = mv_written[i - 1].TITLE \o " pages"

=============================================================================
